---- MODULE Spec2Model ----
(***************************************************************************)
(* Verification development for the coco / Scar transaction engine:        *)
(*   - the Scar commit protocol (protocol/Scar/Scar.h),                    *)
(*   - the worker loop (core/Executor.h),                                  *)
(*   - the R-Store phase loop (protocol/RStore/RStoreExecutor.h),          *)
(*   - the TID word primitives they call (ScarHelper).                     *)
(* Each part has its own specification over its own group of variables;    *)
(* the variables of the other groups stay at their idle values.            *)
(***************************************************************************)
EXTENDS Integers, Naturals, Sequences, FiniteSets, TLC

Min2(a, b) == IF a <= b THEN a ELSE b
Max2(a, b) == IF a >= b THEN a ELSE b

(***************************************************************************)
(* TID word: bit 63 LOCK, bits 62..32 wts, bits 31..5 rts - wts (delta).   *)
(* The word is kept as its three fields; the delta field saturates.        *)
(***************************************************************************)
DeltaBits == 27
MaxDelta == 2^DeltaBits - 1

MkTid(l, w, d) == [lock |-> l, wts |-> w, delta |-> d]

get_wts(tid) == tid.wts
get_rts(tid) == tid.wts + tid.delta
is_locked(tid) == tid.lock
remove_lock_bit(tid) == [tid EXCEPT !.lock = FALSE]

\* mutant: the lock is granted whether or not LOCK is already set
lock_granted_always(tid) ==
  [latest |-> tid, success |-> TRUE, word |-> [tid EXCEPT !.lock = TRUE]]

\* lock(tid) -> (latest, success): fails without spinning when LOCK is set,
\* else sets LOCK and keeps wts / rts.  Returns the old word.
lock(tid) ==
  IF is_locked(tid)
    THEN [latest |-> tid, success |-> FALSE, word |-> tid]
    ELSE [latest |-> tid, success |-> TRUE, word |-> [tid EXCEPT !.lock = TRUE]]

\* unlock(tid): the old value with LOCK cleared.
unlock(tid) == [tid EXCEPT !.lock = FALSE]

\* mutant: the committing unlock clears LOCK and installs no timestamp
unlock_keeping_wts(tid, commit_wts) == [tid EXCEPT !.lock = FALSE]

\* unlock(tid, commit_wts): wts = rts = commit_wts, LOCK = 0.
unlock_with_commit(tid, commit_wts) == MkTid(FALSE, commit_wts, 0)

\* mutant: the extension raises rts by one step only
extend_rts_by_one(old, commit_ts) == [old EXCEPT !.delta = Min2(@ + 1, MaxDelta)]

\* The word validate_read_key tries to install when it extends rts up to
\* commit_ts: same wts and LOCK, delta clamped to saturation.
extend_rts(old, commit_ts) ==
  [old EXCEPT !.delta = Min2(commit_ts - get_wts(old), MaxDelta)]

\* mutant: step 1 (the wts comparison) is left out
validate_step_any_wts(old, read_tid, commit_ts) ==
  IF commit_ts <= get_rts(old) THEN "ok"
  ELSE IF is_locked(old) THEN "fail"
  ELSE "cas"

\* One pass of validate_read_key over the loaded word `old`:
\*   "fail"   step 1 (wts changed) or step 3 (locked, needs extension)
\*   "ok"     step 2 (commit_ts <= rts), written = old
\*   "cas"    step 3, CAS old -> extend_rts(old, commit_ts)
validate_step(old, read_tid, commit_ts) ==
  IF get_wts(old) # get_wts(read_tid) THEN "fail"
  ELSE IF commit_ts <= get_rts(old) THEN "ok"
  ELSE IF is_locked(old) THEN "fail"
  ELSE "cas"

\* validate_read_key run without interference (the CAS succeeds first time).
validate_read_key(latest, read_tid, commit_ts) ==
  LET s == validate_step(latest, read_tid, commit_ts) IN
  IF s = "fail" THEN [ok |-> FALSE, word |-> latest, written |-> read_tid]
  ELSE IF s = "ok" THEN [ok |-> TRUE, word |-> latest, written |-> latest]
  ELSE [ok |-> TRUE, word |-> extend_rts(latest, commit_ts),
        written |-> extend_rts(latest, commit_ts)]

(***************************************************************************)
(* Bounds                                                                  *)
(***************************************************************************)
MaxTs == 2          \* timestamps drawn for the TID primitives
MaxEnv == 2         \* interfering steps of other threads on the word
MaxRounds == 1      \* C-phase / S-phase rounds after the first one
QueryNum == 1       \* transactions run by one run_transaction call
MaxExec == 3        \* execute() calls of the worker loop
MaxAtt == 2         \* execute() calls of the Scar workers, all together
MaxLocalAtt == 3    \* the same, when every record is on one coordinator
MaxCoordinators == 2   \* Context::coordinator_num
MaxWorkersPerNode == 2 \* Context::worker_num
MaxPartitions == 4     \* Context::partition_num
MaxPieces == 3      \* message pieces a worker batches
MaxFlushes == 2     \* calls of flush_messages
MaxPops == 3        \* calls of pop_message
MaxReadSet == 3     \* entries of an Aria read set
MaxProcessCalls == 2 \* calls of the process_requests hook

VARIABLES
  \* --- validate_read_key on one record, with other threads interfering
  vLatest,    \* the record's atomic TID word
  vOld,       \* the word loaded by the current pass
  vRead,      \* tid captured at read time
  vCts,       \* commit_ts
  vPc,        \* "load" | "cas" | "done"
  vRet,       \* return value
  vWritten,   \* out parameter written_ts
  vInst,      \* word installed by the successful CAS (or loaded at step 2)
  vEnv,       \* interfering steps taken so far
  \* --- R-Store phase loop, per node / per worker
  rStatus,    \* worker_status of each node
  rStarted,   \* n_started_workers of each node
  rComplete,  \* n_complete_workers of each node
  rPc,        \* position of each worker in RStoreExecutor::start
  rI,         \* loop index i of run_transaction
  rQ,         \* length of the worker's queue q of committed transactions
  rIn,        \* phase the worker last entered ("none" before the first)
  rCompSince, \* n_complete increments of the worker since it entered rIn
  mPos,       \* status transitions the node's coordinator has performed
  \* --- the worker loop of Executor::start / RStoreExecutor::run_transaction
  eKind,      \* which loop runs: "Executor" or "RStore"
  eSeed,      \* state of the worker's random
  eLastSeed,  \* last_seed
  eRetry,     \* retry_transaction
  ePc,        \* "top" | "execute" | "commit" | "stopped"
  eTxn,       \* the transaction object (NoTxn while unset)
  eI,         \* query index i of run_transaction
  eQ,         \* transactions pushed to q by run_transaction
  eCount,     \* n_commit, n_abort_lock, n_abort_read_validation, n_abort_no_retry
  eExecs,     \* execute() calls completed
  eDb,        \* wts of every record, as seen by this worker's reads
  eEnvN,      \* commits of other workers so far
  eGen,       \* history: seeds from which the transactions were generated
  eLast,      \* history: the last execute() (read set, database, was a replay)
  ePrev,      \* history: the attempt whose commit aborted, if it is being replayed
  \* --- Scar commit: workers, tables, messages
  db,         \* db[c][k] = [val, tid]: the copy of record k held on coordinator c
  wk,         \* per worker: position, transaction (read set, write set, flags)
  out,        \* per worker: pieces batched in its outbound message to the peer
  inq,        \* per worker: in_queue, a FIFO of messages
  mid,        \* per worker: process_request is in the middle of a message
  nAtt,       \* execute() calls so far, all workers together
  owner,      \* history: the worker for which the master word of k is locked
  hist,       \* history: the committed transactions (reads and writes)
  applied,    \* history: <<id, c, k>> for every value written to a copy
  installed,  \* history: per record, the wts values installed by commits
  lastLock,   \* history: the last lock attempt (word before, after, success)
  abortLog,   \* history: per worker, what the abort path of its last commit did
  coordinator_num, \* Context::coordinator_num, fixed at start-up
  \* --- the partition for which a worker generates its transactions
  pCtx,       \* Context: coordinator_num, worker_num, partition_num
  pMode,      \* the loop that runs: "Executor" | "C_PHASE" | "S_PHASE"
  pPick,      \* per worker <<coordinator, id>>: partition_id last drawn
  \* --- the outbound messages of one worker: flush_messages / pop_message
  fCtx,       \* the worker: coordinator_id, id, coordinator_num
  fMsgs,      \* messages[i]: header, number of pieces, identity (history)
  fOutQ,      \* out_queue
  fPc,        \* "idle" | "flush"
  fI,         \* loop index i of flush_messages
  fJust,      \* flush_messages has returned and nothing was added since
  fCount,     \* calls so far: pieces added, flushes, pops; messages made
  fHad,       \* history: identities of the messages that got a piece
  fPushed,    \* history: every message pushed to out_queue, in order
  fPopped,    \* history: every pop_message: its result, was the queue empty
  \* --- AriaTransaction: the read set and its pending read requests
  aId,        \* AriaTransaction::id
  aReadSet,   \* readSet: key and the two bits of every AriaRWKey
  aExec,      \* execution_phase
  aPc,        \* "idle" | "loop" (inside process_requests)
  aI,         \* loop index i of process_requests
  aLast,      \* history: the last call made on the transaction
  aCalls,     \* history: calls of process_requests so far
  aLog        \* history: the arguments of every aria_read_handler call

vVars == <<vLatest, vOld, vRead, vCts, vPc, vRet, vWritten, vInst, vEnv>>
rVars == <<rStatus, rStarted, rComplete, rPc, rI, rQ, rIn, rCompSince, mPos>>
eVars == <<eKind, eSeed, eLastSeed, eRetry, ePc, eTxn, eI, eQ, eCount, eExecs,
           eDb, eEnvN, eGen, eLast, ePrev>>

sVars == <<db, wk, out, inq, mid, nAtt, owner, hist, applied, installed,
           lastLock, abortLog, coordinator_num>>

pVars == <<pCtx, pMode, pPick>>

fVars == <<fCtx, fMsgs, fOutQ, fPc, fI, fJust, fCount, fHad, fPushed, fPopped>>

aVars == <<aId, aReadSet, aExec, aPc, aI, aLast, aCalls, aLog>>

\* the groups of the small specifications
oVars == <<pVars, fVars, aVars>>

vars == <<vVars, rVars, eVars, sVars, oVars>>

\* what the actions of one group leave alone
VFrame == UNCHANGED <<rVars, eVars, sVars, oVars>>
RFrame == UNCHANGED <<vVars, eVars, sVars, oVars>>
EFrame == UNCHANGED <<vVars, rVars, sVars, oVars>>
SFrame == UNCHANGED <<vVars, rVars, eVars, coordinator_num, oVars>>
PFrame == UNCHANGED <<vVars, rVars, eVars, sVars, fVars, aVars>>
FFrame == UNCHANGED <<vVars, rVars, eVars, sVars, pVars, aVars>>
AFrame == UNCHANGED <<vVars, rVars, eVars, sVars, pVars, fVars>>

(***************************************************************************)
(* Specification V: validate_read_key as a CAS loop                         *)
(***************************************************************************)
SmallTs == 0..MaxTs
DeltaSet == SmallTs \cup {MaxDelta - 1, MaxDelta}
CtsSet == (0..(2 * MaxTs)) \cup {MaxDelta + k : k \in 0..(MaxTs + 1)}

NoTid == MkTid(FALSE, 0, 0)

VIdle ==
  /\ vLatest = NoTid /\ vOld = NoTid /\ vRead = NoTid /\ vCts = 0
  /\ vPc = "idle" /\ vRet = FALSE /\ vWritten = NoTid /\ vInst = NoTid
  /\ vEnv = 0

VInit ==
  /\ vLatest \in {MkTid(l, w, d) : l \in BOOLEAN, w \in SmallTs, d \in DeltaSet}
  \* the tid captured by a read never carries the LOCK bit (Scar.h:217)
  /\ vRead \in {MkTid(FALSE, w, d) : w \in SmallTs, d \in {0, 1}}
  /\ vCts \in CtsSet
  /\ vOld = NoTid
  /\ vPc = "load"
  /\ vRet = FALSE
  /\ vWritten = vRead
  /\ vInst = NoTid
  /\ vEnv = 0

\* steps 1 and 2, and the decision of step 3
VLoad ==
  /\ vPc = "load"
  /\ vOld' = vLatest
  /\ LET s == validate_step(vLatest, vRead, vCts) IN
       /\ vPc' = IF s = "cas" THEN "cas" ELSE "done"
       /\ vRet' = (s = "ok")
       /\ vWritten' = IF s = "ok" THEN vLatest ELSE vWritten
       /\ vInst' = IF s = "ok" THEN vLatest ELSE vInst
  /\ UNCHANGED <<vLatest, vRead, vCts, vEnv>>
  /\ VFrame

\* step 3: CAS; on failure retry from step 1
VCas ==
  /\ vPc = "cas"
  /\ IF vLatest = vOld
       THEN /\ vLatest' = extend_rts(vOld, vCts)
            /\ vPc' = "done"
            /\ vRet' = TRUE
            /\ vWritten' = extend_rts(vOld, vCts)
            /\ vInst' = extend_rts(vOld, vCts)
       ELSE /\ vPc' = "load"
            /\ UNCHANGED <<vLatest, vRet, vWritten, vInst>>
  /\ UNCHANGED <<vOld, vRead, vCts, vEnv>>
  /\ VFrame

\* another thread locks the record
VEnvLock ==
  /\ vPc \in {"load", "cas"} /\ vEnv < MaxEnv
  /\ lock(vLatest).success
  /\ vLatest' = lock(vLatest).word
  /\ vEnv' = vEnv + 1
  /\ UNCHANGED <<vOld, vRead, vCts, vPc, vRet, vWritten, vInst>>
  /\ VFrame

\* the lock holder aborts (plain unlock) or commits (unlock with commit_wts)
VEnvUnlock ==
  /\ vPc \in {"load", "cas"} /\ vEnv < MaxEnv
  /\ is_locked(vLatest)
  /\ \/ vLatest' = unlock(vLatest)
     \/ vLatest' = unlock_with_commit(vLatest, get_rts(vLatest) + 1)
  /\ vEnv' = vEnv + 1
  /\ UNCHANGED <<vOld, vRead, vCts, vPc, vRet, vWritten, vInst>>
  /\ VFrame

\* another validator extends rts
VEnvExtend ==
  /\ vPc \in {"load", "cas"} /\ vEnv < MaxEnv
  /\ ~is_locked(vLatest)
  /\ \E c \in SmallTs :
       /\ c > get_rts(vLatest)
       /\ vLatest' = extend_rts(vLatest, c)
  /\ vEnv' = vEnv + 1
  /\ UNCHANGED <<vOld, vRead, vCts, vPc, vRet, vWritten, vInst>>
  /\ VFrame

VNext == VLoad \/ VCas \/ VEnvLock \/ VEnvUnlock \/ VEnvExtend

(***************************************************************************)
(* Specification R: the R-Store worker loop and its phase coordinator       *)
(***************************************************************************)
RNodes == {0, 1}          \* coordinator ids; coordinator 0 runs the C-phase
RWorkers == {0, 1}        \* worker ids on each node
n_workers == Cardinality(RWorkers)

RIdle ==
  /\ rStatus = <<>> /\ rStarted = <<>> /\ rComplete = <<>> /\ rPc = <<>>
  /\ rI = <<>> /\ rQ = <<>> /\ rIn = <<>> /\ rCompSince = <<>> /\ mPos = <<>>

RInit ==
  /\ rStatus = [n \in RNodes |-> "STOP"]
  /\ rStarted = [n \in RNodes |-> 0]
  /\ rComplete = [n \in RNodes |-> 0]
  /\ rPc = [n \in RNodes |-> [w \in RWorkers |-> "waitC"]]
  /\ rI = [n \in RNodes |-> [w \in RWorkers |-> 0]]
  /\ rQ = [n \in RNodes |-> [w \in RWorkers |-> 0]]
  /\ rIn = [n \in RNodes |-> [w \in RWorkers |-> "none"]]
  /\ rCompSince = [n \in RNodes |-> [w \in RWorkers |-> 0]]
  /\ mPos = [n \in RNodes |-> 0]

RGoto(n, w, pc) == rPc' = [rPc EXCEPT ![n][w] = pc]

\* n_started_workers.fetch_add(1): the worker enters phase ph
RStartedInc(n, w, ph) ==
  /\ rStarted' = [rStarted EXCEPT ![n] = @ + 1]
  /\ rIn' = [rIn EXCEPT ![n][w] = ph]
  /\ rCompSince' = [rCompSince EXCEPT ![n][w] = 0]

\* mutant: the completion is counted twice
RCompleteIncTwice(n, w) ==
  /\ rComplete' = [rComplete EXCEPT ![n] = @ + 2]
  /\ rCompSince' = [rCompSince EXCEPT ![n][w] = @ + 1]

\* n_complete_workers.fetch_add(1)
RCompleteInc(n, w) ==
  /\ rComplete' = [rComplete EXCEPT ![n] = @ + 1]
  /\ rCompSince' = [rCompSince EXCEPT ![n][w] = @ + 1]

\* mutant: the wait for C_PHASE does not look for EXIT
RWaitCNoExit(n, w) ==
  /\ rPc[n][w] = "waitC"
  /\ rStatus[n] = "C_PHASE"
  /\ rQ' = [rQ EXCEPT ![n][w] = 0]
  /\ RGoto(n, w, "cStart")
  /\ UNCHANGED <<rStatus, rStarted, rComplete, rI, rIn, rCompSince, mPos>>
  /\ RFrame

\* lines 68-80: spin until C_PHASE; on EXIT drain q and return
RWaitC(n, w) ==
  /\ rPc[n][w] = "waitC"
  /\ rStatus[n] \in {"EXIT", "C_PHASE"}
  /\ rQ' = [rQ EXCEPT ![n][w] = 0]
  /\ RGoto(n, w, IF rStatus[n] = "EXIT" THEN "exited" ELSE "cStart")
  /\ UNCHANGED <<rStatus, rStarted, rComplete, rI, rIn, rCompSince, mPos>>
  /\ RFrame

\* lines 84-91: enter the C-phase
RCStart(n, w) ==
  /\ rPc[n][w] = "cStart"
  /\ RStartedInc(n, w, "C")
  /\ RGoto(n, w, IF n = 0 THEN "cRun" ELSE "cWaitStop")
  /\ rI' = [rI EXCEPT ![n][w] = 0]
  /\ UNCHANGED <<rStatus, rComplete, rQ, mPos>>
  /\ RFrame

\* run_transaction, lines 183-225: one iteration of the query loop; a
\* committed transaction is pushed to q, a fatal abort is dropped
RRunTxn(n, w) ==
  /\ rPc[n][w] \in {"cRun", "sRun"}
  /\ rI[n][w] < QueryNum
  /\ rI' = [rI EXCEPT ![n][w] = @ + 1]
  /\ \/ rQ' = [rQ EXCEPT ![n][w] = @ + 1]
     \/ UNCHANGED rQ
  /\ UNCHANGED <<rStatus, rStarted, rComplete, rPc, rIn, rCompSince, mPos>>
  /\ RFrame

\* lines 87-88: run_transaction returns, n_complete_workers.fetch_add(1)
RCComplete(n, w) ==
  /\ rPc[n][w] = "cRun"
  /\ rI[n][w] = QueryNum
  /\ RCompleteInc(n, w)
  /\ RGoto(n, w, "waitS")
  /\ UNCHANGED <<rStatus, rStarted, rI, rQ, rIn, mPos>>
  /\ RFrame

\* lines 93-100 (coordinator_id # 0): process requests until STOP, once
\* more after STOP, then n_complete_workers.fetch_add(1)
RCDrain(n, w) ==
  /\ rPc[n][w] = "cWaitStop"
  /\ rStatus[n] = "STOP"
  /\ RCompleteInc(n, w)
  /\ RGoto(n, w, "waitS")
  /\ UNCHANGED <<rStatus, rStarted, rI, rQ, rIn, mPos>>
  /\ RFrame

\* mutant: the S-phase is entered without commit_transactions()
RWaitSNoDrain(n, w) ==
  /\ rPc[n][w] = "waitS"
  /\ rStatus[n] = "S_PHASE"
  /\ RStartedInc(n, w, "S")
  /\ rI' = [rI EXCEPT ![n][w] = 0]
  /\ RGoto(n, w, "sRun")
  /\ UNCHANGED <<rStatus, rComplete, rQ, mPos>>
  /\ RFrame

\* lines 105-115: spin until S_PHASE, drain q, enter the S-phase
RWaitS(n, w) ==
  /\ rPc[n][w] = "waitS"
  /\ rStatus[n] = "S_PHASE"
  /\ rQ' = [rQ EXCEPT ![n][w] = 0]
  /\ RStartedInc(n, w, "S")
  /\ rI' = [rI EXCEPT ![n][w] = 0]
  /\ RGoto(n, w, "sRun")
  /\ UNCHANGED <<rStatus, rComplete, mPos>>
  /\ RFrame

\* lines 117-119: run_transaction returns, n_complete_workers.fetch_add(1)
RSComplete(n, w) ==
  /\ rPc[n][w] = "sRun"
  /\ rI[n][w] = QueryNum
  /\ RCompleteInc(n, w)
  /\ RGoto(n, w, "waitStop")
  /\ UNCHANGED <<rStatus, rStarted, rI, rQ, rIn, mPos>>
  /\ RFrame

\* mutant: no completion is reported after the STOP that ends the S-phase
RSDrainNoInc(n, w) ==
  /\ rPc[n][w] = "waitStop"
  /\ rStatus[n] = "STOP"
  /\ RGoto(n, w, "waitC")
  /\ UNCHANGED <<rStatus, rStarted, rComplete, rI, rQ, rIn, rCompSince, mPos>>
  /\ RFrame

\* lines 124-131: spin until STOP, process requests, and
\* n_complete_workers.fetch_add(1) again
RSDrain(n, w) ==
  /\ rPc[n][w] = "waitStop"
  /\ rStatus[n] = "STOP"
  /\ RCompleteInc(n, w)
  /\ RGoto(n, w, "waitC")
  /\ UNCHANGED <<rStatus, rStarted, rI, rQ, rIn, mPos>>
  /\ RFrame

(* The phase coordinator.  Every node applies the same sequence of        *)
(* transitions (-> C_PHASE -> STOP -> S_PHASE -> STOP); coordinator 0     *)
(* leads, the other nodes follow its signal, and coordinator 0 goes on    *)
(* only when every node has applied the previous transition and its       *)
(* counters align.                                                        *)
MStep(n) == mPos[n] % 4
MRound(n) == mPos[n] \div 4
MLeads(n) ==
  IF n = 0 THEN \A m \in RNodes : mPos[m] = mPos[0]
           ELSE mPos[n] < mPos[0]
Drained(m) == rComplete[m] = n_workers
StartedAll(m) == rStarted[m] = n_workers
AllDrained == \A m \in RNodes : Drained(m)

\* -> C_PHASE, after the counters are reset
MToC(n) ==
  /\ rStatus[n] = "STOP" /\ MStep(n) = 0 /\ MLeads(n)
  /\ MRound(n) <= MaxRounds
  /\ MRound(n) > 0 => IF n = 0 THEN AllDrained ELSE Drained(n)
  /\ rStarted' = [rStarted EXCEPT ![n] = 0]
  /\ rComplete' = [rComplete EXCEPT ![n] = 0]
  /\ rStatus' = [rStatus EXCEPT ![n] = "C_PHASE"]
  /\ mPos' = [mPos EXCEPT ![n] = @ + 1]
  /\ UNCHANGED <<rPc, rI, rQ, rIn, rCompSince>>
  /\ RFrame

\* C_PHASE -> STOP: coordinator 0 when n_complete_workers = n_workers,
\* the other nodes on its signal once their workers have started
MCToStop(n) ==
  /\ rStatus[n] = "C_PHASE" /\ MStep(n) = 1 /\ MLeads(n)
  /\ StartedAll(n)
  /\ n = 0 => Drained(0)
  /\ rStatus' = [rStatus EXCEPT ![n] = "STOP"]
  /\ mPos' = [mPos EXCEPT ![n] = @ + 1]
  /\ UNCHANGED <<rStarted, rComplete, rPc, rI, rQ, rIn, rCompSince>>
  /\ RFrame

\* STOP -> S_PHASE, after the counters are reset
MToS(n) ==
  /\ rStatus[n] = "STOP" /\ MStep(n) = 2 /\ MLeads(n)
  /\ IF n = 0 THEN AllDrained ELSE Drained(n)
  /\ rStarted' = [rStarted EXCEPT ![n] = 0]
  /\ rComplete' = [rComplete EXCEPT ![n] = 0]
  /\ rStatus' = [rStatus EXCEPT ![n] = "S_PHASE"]
  /\ mPos' = [mPos EXCEPT ![n] = @ + 1]
  /\ UNCHANGED <<rPc, rI, rQ, rIn, rCompSince>>
  /\ RFrame

\* S_PHASE -> STOP when n_complete_workers = n_workers; the counter is
\* cleared for the completions that follow STOP (RStoreExecutor.h:129)
MSToStop(n) ==
  /\ rStatus[n] = "S_PHASE" /\ MStep(n) = 3 /\ MLeads(n)
  /\ StartedAll(n)
  /\ IF n = 0 THEN AllDrained ELSE Drained(n)
  /\ rComplete' = [rComplete EXCEPT ![n] = 0]
  /\ rStatus' = [rStatus EXCEPT ![n] = "STOP"]
  /\ mPos' = [mPos EXCEPT ![n] = @ + 1]
  /\ UNCHANGED <<rStarted, rPc, rI, rQ, rIn, rCompSince>>
  /\ RFrame

\* -> EXIT on shutdown, at the end of a round
MExit(n) ==
  /\ rStatus[n] = "STOP" /\ MStep(n) = 0 /\ MRound(n) > 0
  /\ IF n = 0 THEN AllDrained ELSE rStatus[0] = "EXIT"
  /\ rStatus' = [rStatus EXCEPT ![n] = "EXIT"]
  /\ UNCHANGED <<rStarted, rComplete, rPc, rI, rQ, rIn, rCompSince, mPos>>
  /\ RFrame

\* -> EXIT on shutdown, requested at any point of a round; the other nodes
\* follow coordinator 0
MShutdown(n) ==
  /\ rStatus[n] # "EXIT"
  /\ n # 0 => rStatus[0] = "EXIT"
  /\ rStatus' = [rStatus EXCEPT ![n] = "EXIT"]
  /\ UNCHANGED <<rStarted, rComplete, rPc, rI, rQ, rIn, rCompSince, mPos>>
  /\ RFrame

RWorkerNext(n, w) ==
  \/ RWaitC(n, w) \/ RCStart(n, w) \/ RRunTxn(n, w) \/ RCComplete(n, w)
  \/ RCDrain(n, w) \/ RWaitS(n, w) \/ RSComplete(n, w) \/ RSDrain(n, w)

RManagerNext(n) ==
  MToC(n) \/ MCToStop(n) \/ MToS(n) \/ MSToStop(n) \/ MExit(n)

RNext ==
  \/ \E n \in RNodes, w \in RWorkers : RWorkerNext(n, w)
  \/ \E n \in RNodes : RManagerNext(n)

\* the R-Store loop with a shutdown that may come at any time
RShutdownNext ==
  \/ \E n \in RNodes, w \in RWorkers : RWorkerNext(n, w)
  \/ \E n \in RNodes : RManagerNext(n)
  \/ \E n \in RNodes : MShutdown(n)

\* every worker thread is scheduled again and again
RFair == \A n \in RNodes : \A w \in RWorkers : WF_vars(RWorkerNext(n, w))

(***************************************************************************)
(* Specification E: the worker loop (generate, execute, commit, retry)      *)
(***************************************************************************)
\* scar::Random: a deterministic generator, a pure function of its seed
Rand_next(seed) == (5 * seed + 3) % 16
uniform_dist(seed, lo, hi) ==
  [seed |-> Rand_next(seed),
   val |-> lo + ((Rand_next(seed) \div 4) % (hi - lo + 1))]

EKeys == {0, 1}             \* keys of the partition's table
EPartsPerNode == {0, 1}     \* partition_num / coordinator_num partitions
keys_num(txn) == txn.type + 1   \* keys that execute() draws (kinds 0 and 1)
FixedQuery == 2     \* the kind whose query is drawn by next_transaction

NoTxn ==
  [type |-> -1, partition |-> -1, query |-> -1, rs |-> <<>>,
   abort_lock |-> FALSE, abort_read_validation |-> FALSE]
NoAttempt ==
  [valid |-> FALSE, rs |-> <<>>, db |-> <<>>, replay |-> FALSE, ready |-> FALSE]

EIdle ==
  /\ eKind = "none" /\ eSeed = 0 /\ eLastSeed = 0 /\ eRetry = FALSE
  /\ ePc = "idle" /\ eTxn = NoTxn /\ eI = 0 /\ eQ = 0 /\ eCount = <<>>
  /\ eExecs = 0 /\ eDb = <<>> /\ eEnvN = 0 /\ eGen = <<>>
  /\ eLast = NoAttempt /\ ePrev = NoAttempt

EInit ==
  /\ eKind \in {"Executor", "RStore"}
  /\ eSeed \in 0..15
  /\ eLastSeed = 0
  /\ eRetry = FALSE
  /\ ePc = "top"
  /\ eTxn = NoTxn
  /\ eI = 0 /\ eQ = 0
  /\ eCount = [commit |-> 0, abort_lock |-> 0, abort_read_validation |-> 0,
               abort_no_retry |-> 0]
  /\ eExecs = 0
  /\ eDb = [k \in EKeys |-> 0]
  /\ eEnvN = 0
  /\ eGen = <<>>
  /\ eLast = NoAttempt /\ ePrev = NoAttempt

\* Executor.h:66-70: the partition of the next transaction
pick_partition(seed) ==
  LET d == uniform_dist(seed, 0, Cardinality(EPartsPerNode) - 1) IN
  [seed |-> d.seed, val |-> d.val * 2 + 0]

\* Workload::next_transaction: draws the kind of the transaction, and for
\* the kind FixedQuery the key of its query
next_transaction(seed, partition) ==
  LET d == uniform_dist(seed, 0, 2)
      q == IF d.val = FixedQuery
             THEN uniform_dist(d.seed, 0, Cardinality(EKeys) - 1)
             ELSE [seed |-> d.seed, val |-> 0 - 1]
  IN [seed |-> q.seed,
      txn |-> [type |-> d.val, partition |-> partition, query |-> q.val,
               rs |-> <<>>,
               abort_lock |-> FALSE, abort_read_validation |-> FALSE]]

\* Transaction::reset: the same object with its sets and flags cleared
reset(txn) ==
  [txn EXCEPT !.rs = <<>>, !.abort_lock = FALSE,
              !.abort_read_validation = FALSE]

\* Transaction::execute: draws the keys of its query from random and reads
\* them; every read-set entry captures the record's tid
RECURSIVE execute_reads(_, _, _)
execute_reads(seed, tids, n) ==
  IF n = 0 THEN [seed |-> seed, rs |-> <<>>]
  ELSE LET d == uniform_dist(seed, 0, Cardinality(EKeys) - 1)
           r == execute_reads(d.seed, tids, n - 1)
       IN [seed |-> r.seed,
           rs |-> <<[key |-> d.val, tid |-> tids[d.val]]>> \o r.rs]

\* execute() of a transaction: kinds 0 and 1 draw their keys, the kind
\* FixedQuery reads the key of its query and leaves random alone
execute(seed, tids, txn) ==
  IF txn.type = FixedQuery
    THEN [seed |-> seed, rs |-> <<[key |-> txn.query, tid |-> tids[txn.query]]>>]
    ELSE execute_reads(seed, tids, keys_num(txn))

\* lines 57-74 (RStore: 187-197): top of one iteration, up to execute()
EBegin ==
  /\ ePc = "top"
  /\ eExecs < MaxExec
  /\ eKind = "RStore" => eI < QueryNum
  /\ eLastSeed' = eSeed
  /\ IF eRetry
       THEN /\ eTxn' = reset(eTxn)
            /\ UNCHANGED <<eSeed, eGen>>
       ELSE LET p == IF eKind = "Executor" THEN pick_partition(eSeed)
                     ELSE [seed |-> eSeed, val |-> 0]
                t == next_transaction(p.seed, p.val)
            IN /\ eTxn' = t.txn
               /\ eSeed' = t.seed
               /\ eGen' = Append(eGen, eSeed)
  /\ ePc' = "execute"
  /\ UNCHANGED <<eKind, eRetry, eI, eQ, eCount, eExecs, eDb, eEnvN, eLast, ePrev>>
  /\ EFrame

\* line 76 and 95-97: execute(); a result other than READY_TO_COMMIT is
\* counted in n_abort_no_retry
EExecute ==
  /\ ePc = "execute"
  /\ \E ready \in BOOLEAN :
       LET r == execute(eSeed, eDb, eTxn) IN
       /\ eSeed' = r.seed
       /\ eTxn' = [eTxn EXCEPT !.rs = r.rs]
       /\ eLast' = [valid |-> TRUE, rs |-> r.rs, db |-> eDb, replay |-> eRetry,
                   ready |-> ready]
       /\ IF ready
            THEN /\ ePc' = "commit"
                 /\ UNCHANGED <<eCount, eI>>
            ELSE /\ ePc' = "top"
                 /\ eCount' = [eCount EXCEPT !.abort_no_retry = @ + 1]
                 /\ eI' = IF eKind = "RStore" /\ ~eRetry THEN eI + 1 ELSE eI
  /\ eExecs' = eExecs + 1
  /\ UNCHANGED <<eKind, eLastSeed, eRetry, eQ, eDb, eEnvN, eGen, ePrev>>
  /\ EFrame

\* Scar::commit (Scar.h:77-101) as the loop sees it: false with abort_lock
\* set when lock_write_set returns txn.abort_lock = true, false with
\* abort_read_validation set when validate_read_set returns false, else true
commit(txn, res) ==
  [ok |-> res = "commit",
   txn |-> [txn EXCEPT !.abort_lock = (res = "abort_lock"),
                       !.abort_read_validation = (res = "abort_read_validation")]]

\* mutant: an abort with abort_lock set is counted in both abort counters
ECommitCountsBoth ==
  /\ ePc = "commit"
  /\ \E res \in {"commit", "abort_lock", "abort_read_validation"} :
       LET c == commit(eTxn, res) IN
       /\ eTxn' = c.txn
       /\ IF c.ok
            THEN /\ eCount' = [eCount EXCEPT !.commit = @ + 1]
                 /\ eRetry' = FALSE
                 /\ eQ' = IF eKind = "RStore" THEN eQ + 1 ELSE eQ
                 /\ eI' = IF eKind = "RStore" THEN eI + 1 ELSE eI
                 /\ ePrev' = NoAttempt
                 /\ UNCHANGED eSeed
            ELSE /\ eCount' =
                      IF c.txn.abort_lock
                        THEN [eCount EXCEPT !.abort_lock = @ + 1,
                                            !.abort_read_validation = @ + 1]
                        ELSE [eCount EXCEPT !.abort_read_validation = @ + 1]
                 /\ eSeed' = eLastSeed
                 /\ eRetry' = TRUE
                 /\ ePrev' = eLast
                 /\ UNCHANGED <<eQ, eI>>
  /\ ePc' = "top"
  /\ UNCHANGED <<eKind, eLastSeed, eExecs, eDb, eEnvN, eGen, eLast>>
  /\ EFrame

\* lines 77-94: protocol.commit() and the counting of its outcome
ECommit ==
  /\ ePc = "commit"
  /\ \E res \in {"commit", "abort_lock", "abort_read_validation"} :
       LET c == commit(eTxn, res) IN
       /\ eTxn' = c.txn
       /\ IF c.ok
            THEN /\ eCount' = [eCount EXCEPT !.commit = @ + 1]
                 /\ eRetry' = FALSE
                 /\ eQ' = IF eKind = "RStore" THEN eQ + 1 ELSE eQ
                 /\ eI' = IF eKind = "RStore" THEN eI + 1 ELSE eI
                 /\ ePrev' = NoAttempt
                 /\ UNCHANGED eSeed
            ELSE /\ eCount' =
                      IF c.txn.abort_lock
                        THEN [eCount EXCEPT !.abort_lock = @ + 1]
                        ELSE [eCount EXCEPT !.abort_read_validation = @ + 1]
                 /\ eSeed' = eLastSeed
                 /\ eRetry' = TRUE
                 /\ ePrev' = eLast
                 /\ UNCHANGED <<eQ, eI>>
  /\ ePc' = "top"
  /\ UNCHANGED <<eKind, eLastSeed, eExecs, eDb, eEnvN, eGen, eLast>>
  /\ EFrame

\* another worker commits a write: the record's wts grows
EEnvCommit ==
  /\ ePc \in {"top", "execute", "commit"}
  /\ eEnvN < MaxEnv
  /\ \E k \in EKeys : eDb' = [eDb EXCEPT ![k] = @ + 1]
  /\ eEnvN' = eEnvN + 1
  /\ UNCHANGED <<eKind, eSeed, eLastSeed, eRetry, ePc, eTxn, eI, eQ, eCount,
                 eExecs, eGen, eLast, ePrev>>
  /\ EFrame

\* line 57: stopFlag is set (RStore: the query loop is over)
EStop ==
  /\ ePc = "top"
  /\ eKind = "RStore" => (eI = QueryNum /\ ~eRetry)
  /\ ePc' = "stopped"
  /\ UNCHANGED <<eKind, eSeed, eLastSeed, eRetry, eTxn, eI, eQ, eCount, eExecs,
                 eDb, eEnvN, eGen, eLast, ePrev>>
  /\ EFrame

ENext == EBegin \/ EExecute \/ ECommit \/ EEnvCommit \/ EStop

(***************************************************************************)
(* Specification S: Scar commit over two coordinators                       *)
(* Specification L: the same commit with every record on one coordinator    *)
(***************************************************************************)
Coords == 0..(coordinator_num - 1)
Keys == {0, 1}                  \* record k lives in partition k
Workers == {0, 1, 2, 3}         \* worker w is worker w % 2 of coordinator w \div 2
\* the workers that generate transactions: one per coordinator, or the two
\* workers of the only coordinator
ActiveWorkers == IF coordinator_num = 1 THEN {0, 1} ELSE {0, 2}

coordinator_id(w) == w \div 2
\* a message of worker w goes to the worker with the same id on the peer
peer(w) == 2 * (1 - coordinator_id(w)) + (w % 2)

\* HashReplicatedPartitioner<2> over coordinator_num coordinators
master_coordinator(p) == p % coordinator_num
has_master_partition(c, p) == master_coordinator(p) = c
is_partition_replicated_on(p, c) == c \in Coords

InitVal == 0

\* the transactions the workload can hand to a worker: read set in key
\* order, write set a part of the read set (no blind write, Scar.h:136)
Shapes ==
  { [reads |-> <<0>>, writes |-> <<>>],
    [reads |-> <<0>>, writes |-> <<0>>],
    [reads |-> <<1>>, writes |-> <<1>>],
    [reads |-> <<0, 1>>, writes |-> <<>>],
    [reads |-> <<0, 1>>, writes |-> <<0>>],
    [reads |-> <<0, 1>>, writes |-> <<1>>],
    [reads |-> <<0, 1>>, writes |-> <<0, 1>>] }

\* the workload when every record is on one coordinator
LocalShapes ==
  { [reads |-> <<0>>, writes |-> <<>>],
    [reads |-> <<0>>, writes |-> <<0>>],
    [reads |-> <<0, 1>>, writes |-> <<1>>],
    [reads |-> <<0, 1>>, writes |-> <<0, 1>>] }

NoShape == [reads |-> <<>>, writes |-> <<>>]

Piece(type, key, off, tid, cts, val, ok, from) ==
  [type |-> type, key |-> key, off |-> off, tid |-> tid, cts |-> cts,
   val |-> val, ok |-> ok, from |-> from]

NoLock == [valid |-> FALSE, pre |-> NoTid, post |-> NoTid, success |-> FALSE]
NoAbort == [unlocked |-> {}, sent |-> {}]

IdleWorker ==
  [pc |-> "top", shape |-> NoShape, rs |-> <<>>, ws |-> <<>>, i |-> 1,
   pendingResponses |-> 0, abort_lock |-> FALSE, abort_read_validation |-> FALSE,
   commit_rts |-> 0, commit_wts |-> 0, id |-> 0, att |-> 0, retry |-> FALSE,
   ret |-> "none",
   \* history: a record read and not written was updated before commit();
   \* no other worker has had a transaction since this one began; the abort
   \* this attempt is the retry of ("none" for a new transaction)
   stale |-> FALSE, solo |-> FALSE, prev |-> "none"]

SIdle ==
  /\ db = <<>> /\ wk = <<>> /\ out = <<>> /\ inq = <<>> /\ mid = <<>>
  /\ nAtt = 0 /\ owner = <<>> /\ hist = <<>> /\ applied = {}
  /\ installed = <<>> /\ lastLock = NoLock /\ abortLog = <<>>
  /\ coordinator_num = 0

SInit ==
  /\ coordinator_num = 2
  /\ db = [c \in Coords |-> [k \in Keys |-> [val |-> InitVal, tid |-> NoTid]]]
  /\ wk = [w \in Workers |-> IdleWorker]
  /\ out = [w \in Workers |-> <<>>]
  /\ inq = [w \in Workers |-> <<>>]
  /\ mid = [w \in Workers |-> FALSE]
  /\ nAtt = 0
  /\ owner = [k \in Keys |-> {}]
  /\ hist = <<>>
  /\ applied = {}
  /\ installed = [k \in Keys |-> <<>>]
  /\ lastLock = NoLock
  /\ abortLog = [w \in Workers |-> NoAbort]

\* one coordinator: every partition is mastered on it and has no replica
LInit ==
  /\ coordinator_num = 1
  /\ db = [c \in Coords |-> [k \in Keys |-> [val |-> InitVal, tid |-> NoTid]]]
  /\ wk = [w \in Workers |-> IdleWorker]
  /\ out = [w \in Workers |-> <<>>]
  /\ inq = [w \in Workers |-> <<>>]
  /\ mid = [w \in Workers |-> FALSE]
  /\ nAtt = 0
  /\ owner = [k \in Keys |-> {}]
  /\ hist = <<>>
  /\ applied = {}
  /\ installed = [k \in Keys |-> <<>>]
  /\ lastLock = NoLock
  /\ abortLog = [w \in Workers |-> NoAbort]

\* ScarHelper::read: value and tid from one consistent view, LOCK bit removed
read(rec) == [val |-> rec.val, tid |-> remove_lock_bit(rec.tid)]

\* position of key k in a read set or write set (0 when absent)
IndexOf(seq, k) ==
  IF \E j \in 1..Len(seq) : seq[j].key = k
    THEN CHOOSE j \in 1..Len(seq) : seq[j].key = k
    ELSE 0

\* flush_messages: the batched pieces become one message in the peer's queue
Flushed(q, w, pieces) ==
  IF pieces = <<>> THEN q
  ELSE [q EXCEPT ![peer(w)] =
          Append(@, [src |-> coordinator_id(w), pieces |-> pieces])]

(* Message handlers.  HEffect gives, for the piece p handled by worker w,  *)
(* the new copy of the record, the new lock owner, the response piece,     *)
(* the worker's transaction after the handler, and the history updates.    *)
HBase(w, p) ==
  [rec |-> db[coordinator_id(w)][p.key], own |-> owner[p.key], resp |-> <<>>,
   wk |-> wk[w], app |-> {}, ll |-> lastLock, inst |-> <<>>]

Rsp(type, p, tid, val, ok) == <<Piece(type, p.key, p.off, tid, 0, val, ok, p.from)>>

\* mutant: a response handler takes two off the count
DecrTwice(t) == [t EXCEPT !.pendingResponses = @ - 2]

Decr(t) == [t EXCEPT !.pendingResponses = @ - 1]

HEffect(w, p) ==
  LET b == HBase(w, p)
      rec == b.rec
      t == wk[w]
  IN
  CASE p.type = "SEARCH" ->
         [b EXCEPT !.resp = Rsp("SEARCH_RSP", p, read(rec).tid, read(rec).val, TRUE)]
    [] p.type = "SEARCH_RSP" ->
         [b EXCEPT !.wk = Decr([t EXCEPT !.rs[p.off].tid = p.tid,
                                         !.rs[p.off].val = p.val])]
    [] p.type = "LOCK" ->
         LET l == lock(rec.tid) IN
         [b EXCEPT !.rec.tid = l.word,
                   !.own = IF l.success THEN @ \cup {p.val} ELSE @,
                   !.resp = Rsp("LOCK_RSP", p, l.latest, 0, l.success),
                   !.ll = [valid |-> TRUE, pre |-> rec.tid, post |-> l.word,
                           success |-> l.success]]
    [] p.type = "LOCK_RSP" ->
         IF p.ok
           THEN LET r == t.rs[IndexOf(t.rs, p.key)] IN
                [b EXCEPT !.wk = Decr([t EXCEPT
                     !.ws[p.off].lockbit = TRUE,
                     !.ws[p.off].tid = p.tid,
                     !.abort_lock = @ \/ get_wts(p.tid) # get_wts(r.tid)])]
           ELSE [b EXCEPT !.wk = Decr([t EXCEPT !.abort_lock = TRUE])]
    [] p.type = "VALID" ->
         LET v == validate_read_key(rec.tid, p.tid, p.cts) IN
         [b EXCEPT !.rec.tid = v.word,
                   !.resp = Rsp("VALID_RSP", p, v.written, 0, v.ok)]
    [] p.type = "VALID_RSP" ->
         IF p.ok
           THEN [b EXCEPT !.wk = Decr([t EXCEPT
                     !.rs[p.off].ok = TRUE,
                     !.rs[p.off].wchg = get_wts(p.tid) # get_wts(t.rs[p.off].tid),
                     !.rs[p.off].tid =
                        IF get_wts(p.tid) # get_wts(@) THEN p.tid ELSE @])]
           ELSE [b EXCEPT !.wk = Decr([t EXCEPT !.abort_read_validation = TRUE])]
    [] p.type = "WRITE" ->
         [b EXCEPT !.rec.val = p.val,
                   !.app = {<<p.val, coordinator_id(w), p.key>>},
                   !.resp = Rsp("WRITE_RSP", p, NoTid, 0, TRUE)]
    [] p.type = "REPLICATE" ->
         [b EXCEPT !.rec = [val |-> p.val, tid |-> unlock_with_commit(rec.tid, p.cts)],
                   !.app = {<<p.val, coordinator_id(w), p.key>>},
                   !.resp = Rsp("REPLICATE_RSP", p, NoTid, 0, TRUE)]
    [] p.type \in {"WRITE_RSP", "REPLICATE_RSP"} ->
         [b EXCEPT !.wk = Decr(t)]
    [] p.type = "RELEASE_LOCK" ->
         [b EXCEPT !.rec.tid = unlock_with_commit(rec.tid, p.cts),
                   !.own = @ \ {p.val},
                   !.inst = <<[id |-> p.val, wts |-> p.cts]>>]
    [] p.type = "ABORT" ->
         [b EXCEPT !.rec.tid = unlock(rec.tid), !.own = @ \ {p.val}]

\* mutant: a worker waiting for its responses handles no request
PumpAtTopOnly == {"top"}

PumpPcs == {"top", "execWait", "lockWait", "validateWait", "writeWait"}

\* process_request, one piece at a time; after the last piece of a message
\* the responses are flushed (Executor.h:124-149)
Handle(w) ==
  /\ wk[w].pc \in PumpPcs
  /\ inq[w] # <<>>
  /\ LET m == Head(inq[w])
         p == Head(m.pieces)
         rest == Tail(m.pieces)
         e == HEffect(w, p)
         o == out[w] \o e.resp
         q == [inq EXCEPT ![w] = IF rest = <<>> THEN Tail(@)
                                  ELSE <<[m EXCEPT !.pieces = rest]>> \o Tail(@)]
     IN /\ db' = [db EXCEPT ![coordinator_id(w)][p.key] = e.rec]
        /\ owner' = [owner EXCEPT ![p.key] = e.own]
        /\ wk' = [wk EXCEPT ![w] = e.wk]
        /\ applied' = applied \cup e.app
        /\ lastLock' = e.ll
        /\ installed' = [installed EXCEPT ![p.key] = @ \o e.inst]
        /\ mid' = [mid EXCEPT ![w] = rest # <<>>]
        /\ IF rest = <<>>
             THEN /\ inq' = Flushed(q, w, o)
                  /\ out' = [out EXCEPT ![w] = <<>>]
             ELSE /\ inq' = q
                  /\ out' = [out EXCEPT ![w] = o]
  /\ UNCHANGED <<nAtt, hist, abortLog>>
  /\ SFrame

SetMax(S) == CHOOSE x \in S : \A y \in S : y <= x

\* mutant: the commit timestamp is not pushed past the rts of the write set
compute_commit_ts_at_rts(rs, ws) ==
  LET rts == SetMax({0} \cup {get_wts(rs[j].tid) : j \in 1..Len(rs)})
      wts == SetMax({rts} \cup {get_rts(ws[j].tid) : j \in 1..Len(ws)})
  IN [commit_rts |-> rts, commit_wts |-> wts]

\* mutant: the commit timestamp is taken from the read set alone
compute_commit_ts_ignoring_writes(rs, ws) ==
  LET rts == SetMax({0} \cup {get_wts(rs[j].tid) : j \in 1..Len(rs)})
  IN [commit_rts |-> rts, commit_wts |-> rts]

\* Scar::compute_commit_ts (Scar.h:157-175)
compute_commit_ts(rs, ws) ==
  LET rts == SetMax({0} \cup {get_wts(rs[j].tid) : j \in 1..Len(rs)})
      wts == SetMax({rts} \cup {get_rts(ws[j].tid) + 1 : j \in 1..Len(ws)})
  IN [commit_rts |-> rts, commit_wts |-> wts]

\* one loop iteration is over: the worker's transaction is t, its batched
\* pieces are o; after the last iteration sync_messages flushes them
Advance(w, t, o, last, waitPc) ==
  IF last
    THEN /\ wk' = [wk EXCEPT ![w] = [t EXCEPT !.pc = waitPc, !.i = 1]]
         /\ inq' = Flushed(inq, w, o)
         /\ out' = [out EXCEPT ![w] = <<>>]
    ELSE /\ wk' = [wk EXCEPT ![w] = [t EXCEPT !.i = @ + 1]]
         /\ out' = [out EXCEPT ![w] = o]
         /\ UNCHANGED inq

\* Executor.h:78-94: commit() has returned; a committed transaction enters
\* the history, an aborted one is marked for retry
Returned(t, ok) ==
  [t EXCEPT !.pc = "top", !.i = 1, !.ret = IF ok THEN "true" ELSE "false",
            !.retry = ~ok]

Committed(t) ==
  [id |-> t.id,
   reads |-> [j \in 1..Len(t.rs) |-> [key |-> t.rs[j].key, val |-> t.rs[j].val]],
   writes |-> {t.ws[j].key : j \in 1..Len(t.ws)}]

\* Executor.h:57-74: top of the loop; a new transaction, or reset() of the
\* aborted one
Begin(w) ==
  /\ w \in ActiveWorkers
  /\ wk[w].pc = "top" /\ ~mid[w]
  /\ nAtt < (IF coordinator_num = 1 THEN MaxLocalAtt ELSE MaxAtt)
  /\ \E sh \in (IF coordinator_num = 1 THEN LocalShapes ELSE Shapes) :
       /\ wk[w].retry => sh = wk[w].shape
       /\ wk' = [u \in Workers |->
            IF u = w
              THEN [IdleWorker EXCEPT !.pc = "exec", !.shape = sh,
                                      !.att = wk[w].att + 1,
                                      !.id = 10 * (w + 1) + wk[w].att + 1,
                                      !.retry = wk[w].retry,
                                      !.solo = \A v \in Workers \ {w} :
                                                 wk[v].pc = "top",
                                      !.prev =
                                        IF ~wk[w].retry THEN "none"
                                        ELSE IF wk[w].abort_lock THEN "lock"
                                        ELSE "validation"]
              ELSE [wk[u] EXCEPT !.solo = FALSE]]
  /\ nAtt' = nAtt + 1
  /\ abortLog' = [abortLog EXCEPT ![w] = NoAbort]
  /\ UNCHANGED <<db, out, inq, mid, owner, hist, applied, installed, lastLock>>
  /\ SFrame

\* execute(): search_for_read / search_for_update of the next key; a local
\* read is served from the table, a remote one sends a search message
ExecRead(w) ==
  /\ wk[w].pc = "exec"
  /\ LET t == wk[w]
         k == t.shape.reads[t.i]
         c == coordinator_id(w)
         local == has_master_partition(c, k)
         r == read(db[c][k])
         entry == IF local
                    THEN [key |-> k, tid |-> r.tid, val |-> r.val,
                          ok |-> FALSE, wchg |-> FALSE]
                    ELSE [key |-> k, tid |-> NoTid, val |-> InitVal,
                          ok |-> FALSE, wchg |-> FALSE]
         t2 == [t EXCEPT !.rs = Append(@, entry),
                         !.pendingResponses = IF local THEN @ ELSE @ + 1]
         o == IF local THEN out[w]
              ELSE Append(out[w], Piece("SEARCH", k, t.i, NoTid, 0, 0, TRUE, w))
     IN Advance(w, t2, o, t.i = Len(t.shape.reads), "execWait")
  /\ UNCHANGED <<db, mid, nAtt, owner, hist, applied, installed, lastLock, abortLog>>
  /\ SFrame

\* execute() returns READY_TO_COMMIT with the write set filled
ExecDone(w) ==
  /\ wk[w].pc = "execWait" /\ ~mid[w]
  /\ wk[w].pendingResponses = 0
  /\ LET t == wk[w]
         ws == [j \in 1..Len(t.shape.writes) |->
                  [key |-> t.shape.writes[j], lockbit |-> FALSE, tid |-> NoTid]]
         \* record rs[j] is not written by t, and a transaction that has
         \* since committed installed another wts than the one t read
         changed(j) ==
           LET k == t.rs[j].key IN
           /\ \A i \in 1..Len(ws) : ws[i].key # k
           /\ get_wts(db[master_coordinator(k)][k].tid) # get_wts(t.rs[j].tid)
           /\ installed[k] # <<>>
           /\ \E i \in 1..Len(hist) :
                hist[i].id = installed[k][Len(installed[k])].id
     IN wk' = [wk EXCEPT ![w] =
                 [t EXCEPT !.ws = ws, !.i = 1,
                           !.stale = \E j \in 1..Len(t.rs) : changed(j),
                           !.pc = IF ws = <<>> THEN "lockWait" ELSE "lock"]]
  /\ UNCHANGED <<db, out, inq, mid, nAtt, owner, hist, applied, installed,
                 lastLock, abortLog>>
  /\ SFrame

\* mutant: the lock step does not compare the locked word with the tid read
LockStepNoWtsCheck(w) ==
  /\ wk[w].pc = "lock"
  /\ LET t == wk[w]
         k == t.ws[t.i].key
         c == coordinator_id(w)
         l == lock(db[c][k].tid)
         tidOnRead == t.rs[IndexOf(t.rs, k)].tid
         changed == FALSE
     IN IF has_master_partition(c, k)
          THEN /\ db' = [db EXCEPT ![c][k].tid = l.word]
               /\ owner' = [owner EXCEPT ![k] = IF l.success THEN @ \cup {t.id} ELSE @]
               /\ lastLock' = [valid |-> TRUE, pre |-> db[c][k].tid,
                               post |-> l.word, success |-> l.success]
               /\ IF ~l.success
                    THEN Advance(w, [t EXCEPT !.abort_lock = TRUE], out[w],
                                 TRUE, "lockWait")
                    ELSE Advance(w, [t EXCEPT !.ws[t.i].lockbit = TRUE,
                                              !.ws[t.i].tid = l.latest,
                                              !.abort_lock = @ \/ changed],
                                 out[w], changed \/ t.i = Len(t.ws), "lockWait")
          ELSE /\ Advance(w, [t EXCEPT !.pendingResponses = @ + 1],
                          Append(out[w], Piece("LOCK", k, t.i, NoTid, 0, t.id, TRUE, w)),
                          t.i = Len(t.ws), "lockWait")
               /\ UNCHANGED <<db, owner, lastLock>>
  /\ UNCHANGED <<mid, nAtt, hist, applied, installed, abortLog>>
  /\ SFrame

\* Scar::lock_write_set (Scar.h:104-155), one write key
LockStep(w) ==
  /\ wk[w].pc = "lock"
  /\ LET t == wk[w]
         k == t.ws[t.i].key
         c == coordinator_id(w)
         l == lock(db[c][k].tid)
         tidOnRead == t.rs[IndexOf(t.rs, k)].tid
         changed == get_wts(l.latest) # get_wts(tidOnRead)
     IN IF has_master_partition(c, k)
          THEN /\ db' = [db EXCEPT ![c][k].tid = l.word]
               /\ owner' = [owner EXCEPT ![k] = IF l.success THEN @ \cup {t.id} ELSE @]
               /\ lastLock' = [valid |-> TRUE, pre |-> db[c][k].tid,
                               post |-> l.word, success |-> l.success]
               /\ IF ~l.success
                    THEN Advance(w, [t EXCEPT !.abort_lock = TRUE], out[w],
                                 TRUE, "lockWait")
                    ELSE Advance(w, [t EXCEPT !.ws[t.i].lockbit = TRUE,
                                              !.ws[t.i].tid = l.latest,
                                              !.abort_lock = @ \/ changed],
                                 out[w], changed \/ t.i = Len(t.ws), "lockWait")
          ELSE /\ Advance(w, [t EXCEPT !.pendingResponses = @ + 1],
                          Append(out[w], Piece("LOCK", k, t.i, NoTid, 0, t.id, TRUE, w)),
                          t.i = Len(t.ws), "lockWait")
               /\ UNCHANGED <<db, owner, lastLock>>
  /\ UNCHANGED <<mid, nAtt, hist, applied, installed, abortLog>>
  /\ SFrame

\* lock_write_set returns (Scar.h:152-154); commit() goes to abort() or to
\* compute_commit_ts and the read validation (Scar.h:81-89)
LockDone(w) ==
  /\ wk[w].pc = "lockWait" /\ ~mid[w]
  /\ wk[w].pendingResponses = 0
  /\ LET t == wk[w]
         ts == compute_commit_ts(t.rs, t.ws)
     IN wk' = [wk EXCEPT ![w] =
                 IF t.abort_lock
                   THEN [t EXCEPT !.pc = "abort", !.i = 1]
                   ELSE [t EXCEPT !.pc = "validate", !.i = 1,
                                  !.commit_rts = ts.commit_rts,
                                  !.commit_wts = ts.commit_wts]]
  /\ UNCHANGED <<db, out, inq, mid, nAtt, owner, hist, applied, installed,
                 lastLock, abortLog>>
  /\ SFrame

\* mutant: the entry is marked whenever the validation changed the word
ValidateStepMarksExtension(w) ==
  /\ wk[w].pc = "validate"
  /\ LET t == wk[w]
         e == t.rs[t.i]
         k == e.key
         c == coordinator_id(w)
         v == validate_read_key(db[c][k].tid, e.tid, t.commit_wts)
         moved == v.word # db[c][k].tid
         last == t.i = Len(t.rs)
     IN IF IndexOf(t.ws, k) # 0
          THEN /\ Advance(w, t, out[w], last, "validateWait")
               /\ UNCHANGED db
        ELSE IF has_master_partition(c, k)
          THEN IF v.ok
                 THEN /\ db' = [db EXCEPT ![c][k].tid = v.word]
                      /\ Advance(w, [t EXCEPT !.rs[t.i].ok = TRUE,
                                              !.rs[t.i].wchg = moved,
                                              !.rs[t.i].tid =
                                                 IF moved THEN v.written ELSE @],
                                 out[w], last, "validateWait")
                 ELSE /\ Advance(w, [t EXCEPT !.abort_read_validation = TRUE],
                                 out[w], TRUE, "validateWait")
                      /\ UNCHANGED db
          ELSE /\ Advance(w, [t EXCEPT !.pendingResponses = @ + 1],
                          Append(out[w], Piece("VALID", k, t.i, e.tid,
                                               t.commit_wts, 0, TRUE, w)),
                          last, "validateWait")
               /\ UNCHANGED db
  /\ UNCHANGED <<mid, nAtt, owner, hist, applied, installed, lastLock, abortLog>>
  /\ SFrame

\* Scar::validate_read_set (Scar.h:177-241), one read key
ValidateStep(w) ==
  /\ wk[w].pc = "validate"
  /\ LET t == wk[w]
         e == t.rs[t.i]
         k == e.key
         c == coordinator_id(w)
         v == validate_read_key(db[c][k].tid, e.tid, t.commit_wts)
         moved == get_wts(v.written) # get_wts(e.tid)
         last == t.i = Len(t.rs)
     IN IF IndexOf(t.ws, k) # 0
          THEN /\ Advance(w, t, out[w], last, "validateWait")
               /\ UNCHANGED db
        ELSE IF has_master_partition(c, k)
          THEN IF v.ok
                 THEN /\ db' = [db EXCEPT ![c][k].tid = v.word]
                      /\ Advance(w, [t EXCEPT !.rs[t.i].ok = TRUE,
                                              !.rs[t.i].wchg = moved,
                                              !.rs[t.i].tid =
                                                 IF moved THEN v.written ELSE @],
                                 out[w], last, "validateWait")
                 ELSE /\ Advance(w, [t EXCEPT !.abort_read_validation = TRUE],
                                 out[w], TRUE, "validateWait")
                      /\ UNCHANGED db
          ELSE /\ Advance(w, [t EXCEPT !.pendingResponses = @ + 1],
                          Append(out[w], Piece("VALID", k, t.i, e.tid,
                                               t.commit_wts, 0, TRUE, w)),
                          last, "validateWait")
               /\ UNCHANGED db
  /\ UNCHANGED <<mid, nAtt, owner, hist, applied, installed, lastLock, abortLog>>
  /\ SFrame

\* mutant: commit() goes on to write_and_replicate whatever the validation said
ValidateDoneNoAbort(w) ==
  /\ wk[w].pc = "validateWait" /\ ~mid[w]
  /\ wk[w].pendingResponses = 0
  /\ LET t == wk[w] IN
       IF t.ws = <<>>
         THEN /\ wk' = [wk EXCEPT ![w] = Returned(t, TRUE)]
              /\ hist' = Append(hist, Committed(t))
         ELSE /\ wk' = [wk EXCEPT ![w] = [t EXCEPT !.i = 1, !.pc = "write"]]
              /\ UNCHANGED hist
  /\ UNCHANGED <<db, out, inq, mid, nAtt, owner, applied, installed, lastLock,
                 abortLog>>
  /\ SFrame

\* validate_read_set returns (Scar.h:238-240); commit() goes to abort() or
\* to write_and_replicate (Scar.h:89-95)
ValidateDone(w) ==
  /\ wk[w].pc = "validateWait" /\ ~mid[w]
  /\ wk[w].pendingResponses = 0
  /\ LET t == wk[w] IN
       IF t.ws = <<>>
         THEN /\ wk' = [wk EXCEPT ![w] = Returned(t, ~t.abort_read_validation)]
              /\ hist' = IF t.abort_read_validation THEN hist
                         ELSE Append(hist, Committed(t))
         ELSE /\ wk' = [wk EXCEPT ![w] =
                   [t EXCEPT !.i = 1,
                             !.pc = IF t.abort_read_validation THEN "abort"
                                    ELSE "write"]]
              /\ UNCHANGED hist
  /\ UNCHANGED <<db, out, inq, mid, nAtt, owner, applied, installed, lastLock,
                 abortLog>>
  /\ SFrame

\* mutant: a remote replica is sent the write without being waited for
WriteStepNoWait(w) ==
  /\ wk[w].pc = "write"
  /\ LET t == wk[w]
         k == t.ws[t.i].key
         c == coordinator_id(w)
         last == t.i = Len(t.ws)
     IN /\ applied' = applied \cup {<<t.id, c, k>>}
        /\ IF has_master_partition(c, k)
             THEN /\ db' = [db EXCEPT ![c][k].val = t.id]
                  /\ IF Coords = {c}
                       THEN Advance(w, t, out[w], last, "writeWait")
                       ELSE Advance(w, t,
                                    Append(out[w],
                                           Piece("REPLICATE", k, t.i, NoTid,
                                                 t.commit_wts, t.id, TRUE, w)),
                                    last, "writeWait")
             ELSE /\ ~is_locked(db[c][k].tid)
                  /\ db' = [db EXCEPT ![c][k] =
                       [val |-> t.id,
                        tid |-> unlock_with_commit(lock(@.tid).word, t.commit_wts)]]
                  /\ Advance(w, [t EXCEPT !.pendingResponses = @ + 1],
                             Append(out[w], Piece("WRITE", k, t.i, NoTid, 0,
                                                  t.id, TRUE, w)),
                             last, "writeWait")
  /\ UNCHANGED <<mid, nAtt, owner, hist, installed, lastLock, abortLog>>
  /\ SFrame

\* mutant: the replica on the writer's own coordinator is left alone
WriteStepNoLocalReplicate(w) ==
  /\ wk[w].pc = "write"
  /\ LET t == wk[w]
         k == t.ws[t.i].key
         c == coordinator_id(w)
         last == t.i = Len(t.ws)
     IN IF has_master_partition(c, k)
          THEN /\ applied' = applied \cup {<<t.id, c, k>>}
               /\ db' = [db EXCEPT ![c][k].val = t.id]
               /\ IF Coords = {c}
                    THEN Advance(w, t, out[w], last, "writeWait")
                    ELSE Advance(w, [t EXCEPT !.pendingResponses = @ + 1],
                                 Append(out[w],
                                        Piece("REPLICATE", k, t.i, NoTid,
                                              t.commit_wts, t.id, TRUE, w)),
                                 last, "writeWait")
          ELSE /\ UNCHANGED <<applied, db>>
               /\ Advance(w, [t EXCEPT !.pendingResponses = @ + 1],
                          Append(out[w], Piece("WRITE", k, t.i, NoTid, 0,
                                               t.id, TRUE, w)),
                          last, "writeWait")
  /\ UNCHANGED <<mid, nAtt, owner, hist, installed, lastLock, abortLog>>
  /\ SFrame

\* Scar::write_and_replicate (Scar.h:243-313), one write key: the master
\* copy is written (locally or by a WRITE message), then the replica on the
\* other coordinator, if there is one (by a REPLICATE message, or locally
\* under its lock)
WriteStep(w) ==
  /\ wk[w].pc = "write"
  /\ LET t == wk[w]
         k == t.ws[t.i].key
         c == coordinator_id(w)
         last == t.i = Len(t.ws)
     IN /\ applied' = applied \cup {<<t.id, c, k>>}
        /\ IF has_master_partition(c, k)
             THEN /\ db' = [db EXCEPT ![c][k].val = t.id]
                  /\ IF Coords = {c}
                       THEN Advance(w, t, out[w], last, "writeWait")
                       ELSE Advance(w, [t EXCEPT !.pendingResponses = @ + 1],
                                    Append(out[w],
                                           Piece("REPLICATE", k, t.i, NoTid,
                                                 t.commit_wts, t.id, TRUE, w)),
                                    last, "writeWait")
             ELSE /\ ~is_locked(db[c][k].tid)
                  /\ db' = [db EXCEPT ![c][k] =
                       [val |-> t.id,
                        tid |-> unlock_with_commit(lock(@.tid).word, t.commit_wts)]]
                  /\ Advance(w, [t EXCEPT !.pendingResponses = @ + 1],
                             Append(out[w], Piece("WRITE", k, t.i, NoTid, 0,
                                                  t.id, TRUE, w)),
                             last, "writeWait")
  /\ UNCHANGED <<mid, nAtt, owner, hist, installed, lastLock, abortLog>>
  /\ SFrame

\* mutant: write_and_replicate flushes without waiting for the responses
WriteDoneNoWait(w) ==
  /\ wk[w].pc = "writeWait" /\ ~mid[w]
  /\ wk' = [wk EXCEPT ![w].pc = "release", ![w].i = 1]
  /\ UNCHANGED <<db, out, inq, mid, nAtt, owner, hist, applied, installed,
                 lastLock, abortLog>>
  /\ SFrame

\* write_and_replicate returns once every response has arrived (Scar.h:312)
WriteDone(w) ==
  /\ wk[w].pc = "writeWait" /\ ~mid[w]
  /\ wk[w].pendingResponses = 0
  /\ wk' = [wk EXCEPT ![w].pc = "release", ![w].i = 1]
  /\ UNCHANGED <<db, out, inq, mid, nAtt, owner, hist, applied, installed,
                 lastLock, abortLog>>
  /\ SFrame

\* Scar::release_lock (Scar.h:315-344), one write key; after the last one
\* commit() returns true
ReleaseStep(w) ==
  /\ wk[w].pc = "release"
  /\ LET t == wk[w]
         k == t.ws[t.i].key
         c == coordinator_id(w)
         last == t.i = Len(t.ws)
         local == has_master_partition(c, k)
         o == IF local THEN out[w]
              ELSE Append(out[w], Piece("RELEASE_LOCK", k, t.i, NoTid,
                                        t.commit_wts, t.id, TRUE, w))
     IN /\ IF local
             THEN /\ db' = [db EXCEPT ![c][k] =
                       [val |-> t.id,
                        tid |-> unlock_with_commit(@.tid, t.commit_wts)]]
                  /\ owner' = [owner EXCEPT ![k] = @ \ {t.id}]
                  /\ installed' = [installed EXCEPT ![k] =
                       Append(@, [id |-> t.id, wts |-> t.commit_wts])]
             ELSE UNCHANGED <<db, owner, installed>>
        /\ Advance(w, IF last THEN Returned(t, TRUE) ELSE t, o, last, "top")
        /\ hist' = IF last THEN Append(hist, Committed(t)) ELSE hist
  /\ UNCHANGED <<mid, nAtt, applied, lastLock, abortLog>>
  /\ SFrame

\* mutant: abort() unlocks every write key, locked by this transaction or not
AbortStepAll(w) ==
  /\ wk[w].pc = "abort"
  /\ LET t == wk[w]
         e == t.ws[t.i]
         k == e.key
         c == coordinator_id(w)
         last == t.i = Len(t.ws)
         local == has_master_partition(c, k)
         o == IF ~local
                THEN Append(out[w], Piece("ABORT", k, t.i, NoTid, 0, t.id, TRUE, w))
                ELSE out[w]
     IN /\ IF local
             THEN /\ db' = [db EXCEPT ![c][k].tid = unlock(@)]
                  /\ owner' = [owner EXCEPT ![k] = @ \ {t.id}]
                  /\ abortLog' = [abortLog EXCEPT ![w].unlocked = @ \cup
                        {[key |-> k, before |-> e.tid, after |-> unlock(db[c][k].tid),
                          held |-> t.id \in owner[k]]}]
             ELSE /\ abortLog' = [abortLog EXCEPT ![w].sent = @ \cup
                          {[key |-> k, held |-> t.id \in owner[k]]}]
                  /\ UNCHANGED <<db, owner>>
        /\ Advance(w, IF last THEN Returned(t, FALSE) ELSE t, o, last, "top")
  /\ UNCHANGED <<mid, nAtt, hist, applied, installed, lastLock>>
  /\ SFrame

\* Scar::abort (Scar.h:48-75), one write key; after the last one commit()
\* returns false
AbortStep(w) ==
  /\ wk[w].pc = "abort"
  /\ LET t == wk[w]
         e == t.ws[t.i]
         k == e.key
         c == coordinator_id(w)
         last == t.i = Len(t.ws)
         local == has_master_partition(c, k)
         o == IF e.lockbit /\ ~local
                THEN Append(out[w], Piece("ABORT", k, t.i, NoTid, 0, t.id, TRUE, w))
                ELSE out[w]
     IN /\ IF e.lockbit /\ local
             THEN /\ db' = [db EXCEPT ![c][k].tid = unlock(@)]
                  /\ owner' = [owner EXCEPT ![k] = @ \ {t.id}]
                  /\ abortLog' = [abortLog EXCEPT ![w].unlocked = @ \cup
                        {[key |-> k, before |-> e.tid, after |-> unlock(db[c][k].tid),
                          held |-> t.id \in owner[k]]}]
             ELSE IF e.lockbit
               THEN /\ abortLog' = [abortLog EXCEPT ![w].sent = @ \cup
                          {[key |-> k, held |-> t.id \in owner[k]]}]
                    /\ UNCHANGED <<db, owner>>
               ELSE UNCHANGED <<db, owner, abortLog>>
        /\ Advance(w, IF last THEN Returned(t, FALSE) ELSE t, o, last, "top")
  /\ UNCHANGED <<mid, nAtt, hist, applied, installed, lastLock>>
  /\ SFrame

SNext ==
  \E w \in Workers :
    \/ Handle(w)
    \/ Begin(w)
    \/ ExecRead(w)
    \/ ExecDone(w)
    \/ LockStep(w)
    \/ LockDone(w)
    \/ ValidateStep(w)
    \/ ValidateDone(w)
    \/ WriteStep(w)
    \/ WriteDone(w)
    \/ ReleaseStep(w)
    \/ AbortStep(w)

\* one coordinator: no message is ever sent, so no handler runs
LNext ==
  \E w \in Workers :
    \/ Begin(w)
    \/ ExecRead(w)
    \/ ExecDone(w)
    \/ LockStep(w)
    \/ LockDone(w)
    \/ ValidateStep(w)
    \/ ValidateDone(w)
    \/ WriteStep(w)
    \/ WriteDone(w)
    \/ ReleaseStep(w)
    \/ AbortStep(w)

\* what the thread of worker w does next once its transaction is generated:
\* the threads are scheduled fairly, a new transaction is not required
SWorkerNext(w) ==
  \/ Handle(w)
  \/ ExecRead(w)
  \/ ExecDone(w)
  \/ LockStep(w)
  \/ LockDone(w)
  \/ ValidateStep(w)
  \/ ValidateDone(w)
  \/ WriteStep(w)
  \/ WriteDone(w)
  \/ ReleaseStep(w)
  \/ AbortStep(w)

SFair == \A w \in Workers : WF_vars(SWorkerNext(w))

(***************************************************************************)
(* Specification P: the partition a worker generates transactions for       *)
(***************************************************************************)
NoPick == 0 - 1

PIdle == pCtx = <<>> /\ pMode = "none" /\ pPick = <<>>

\* the configurations the loop of mode m runs under: partition_num /
\* coordinator_num >= 1 for uniform_dist; the CHECKs of run_transaction
\* (RStoreExecutor.h:157, 174)
Contexts(m) ==
  { ctx \in [coordinator_num : 1..MaxCoordinators,
             worker_num : 1..MaxWorkersPerNode,
             partition_num : 1..MaxPartitions] :
      /\ ctx.partition_num >= ctx.coordinator_num
      /\ m = "C_PHASE" => ctx.partition_num % ctx.worker_num = 0
      /\ m = "S_PHASE" =>
           ctx.partition_num >= ctx.coordinator_num * ctx.worker_num }

PWorkers(ctx) ==
  (0..(ctx.coordinator_num - 1)) \X (0..(ctx.worker_num - 1))

PInit ==
  /\ pMode \in {"Executor", "C_PHASE", "S_PHASE"}
  /\ pCtx \in Contexts(pMode)
  /\ pPick = [x \in PWorkers(pCtx) |-> NoPick]

\* Executor.h:66-72: a partition of the worker's coordinator, drawn at random
ExecutorPick(x) ==
  /\ pMode = "Executor"
  /\ LET partition_num_per_node ==
           pCtx.partition_num \div pCtx.coordinator_num
     IN \E r \in 0..(partition_num_per_node - 1) :
          pPick' = [pPick EXCEPT ![x] = r * pCtx.coordinator_num + x[1]]
  /\ UNCHANGED <<pCtx, pMode>>
  /\ PFrame

\* RStoreExecutor.h:156-162: only coordinator 0 runs the C-phase; a partition
\* of the worker's own slice, drawn at random
CPhasePick(x) ==
  /\ pMode = "C_PHASE"
  /\ x[1] = 0
  /\ LET partition_num_per_thread == pCtx.partition_num \div pCtx.worker_num
     IN \E r \in 0..(partition_num_per_thread - 1) :
          pPick' = [pPick EXCEPT ![x] = x[2] * partition_num_per_thread + r]
  /\ UNCHANGED <<pCtx, pMode>>
  /\ PFrame

\* mutant: the S-phase partition is id + coordinator_id
SPhasePickSum(x) ==
  /\ pMode = "S_PHASE"
  /\ pPick' = [pPick EXCEPT ![x] = x[2] + x[1]]
  /\ UNCHANGED <<pCtx, pMode>>
  /\ PFrame

\* RStoreExecutor.h:163-164: the one partition id * coordinator_num +
\* coordinator_id
SPhasePick(x) ==
  /\ pMode = "S_PHASE"
  /\ pPick' = [pPick EXCEPT ![x] = x[2] * pCtx.coordinator_num + x[1]]
  /\ UNCHANGED <<pCtx, pMode>>
  /\ PFrame

PNext ==
  \E x \in DOMAIN pPick :
    \/ ExecutorPick(x)
    \/ CPhasePick(x)
    \/ SPhasePick(x)

(***************************************************************************)
(* Specification F: a worker's outbound messages                            *)
(***************************************************************************)
FIdle ==
  /\ fCtx = <<>> /\ fMsgs = <<>> /\ fOutQ = <<>> /\ fPc = "none" /\ fI = 0
  /\ fJust = FALSE /\ fCount = <<>> /\ fHad = {} /\ fPushed = <<>>
  /\ fPopped = <<>>

\* Executor.h:191-195: a fresh Message with its header set; obj is the
\* identity of the object
init_message(ctx, dest_node_id, obj) ==
  [source |-> ctx.coordinator_id, dest |-> dest_node_id, worker |-> ctx.id,
   count |-> 0, obj |-> obj]

\* Executor.h:40-43: the constructor makes one message per coordinator
FInit ==
  /\ fCtx \in { c \in [coordinator_id : 0..(MaxCoordinators - 1),
                         id : 0..(MaxWorkersPerNode - 1),
                         coordinator_num : 1..MaxCoordinators] :
                   c.coordinator_id < c.coordinator_num }
  /\ fMsgs = [i \in 0..(fCtx.coordinator_num - 1) |-> init_message(fCtx, i, i)]
  /\ fOutQ = <<>>
  /\ fPc = "idle" /\ fI = 0 /\ fJust = FALSE
  /\ fCount = [pieces |-> 0, flushes |-> 0, pops |-> 0,
               made |-> fCtx.coordinator_num]
  /\ fHad = {} /\ fPushed = <<>> /\ fPopped = <<>>

\* a message factory or a handler appends a piece to the message for
\* another coordinator (Executor.h:141-143, 161-164)
AddPiece(i) ==
  /\ fPc = "idle"
  /\ i \in DOMAIN fMsgs /\ i # fCtx.coordinator_id
  /\ fCount.pieces < MaxPieces
  /\ fMsgs' = [fMsgs EXCEPT ![i].count = @ + 1]
  /\ fHad' = fHad \cup {fMsgs[i].obj}
  /\ fCount' = [fCount EXCEPT !.pieces = @ + 1]
  /\ fJust' = FALSE
  /\ UNCHANGED <<fCtx, fOutQ, fPc, fI, fPushed, fPopped>>
  /\ FFrame

\* flush_messages is called
FlushCall ==
  /\ fPc = "idle"
  /\ fCount.flushes < MaxFlushes
  /\ fPc' = "flush" /\ fI' = 0
  /\ fCount' = [fCount EXCEPT !.flushes = @ + 1]
  /\ fJust' = FALSE
  /\ UNCHANGED <<fCtx, fMsgs, fOutQ, fHad, fPushed, fPopped>>
  /\ FFrame

\* mutant: a message without pieces is pushed too
FlushStepPushEmpty ==
  /\ fPc = "flush" /\ fI < fCtx.coordinator_num
  /\ IF fI = fCtx.coordinator_id
       THEN UNCHANGED <<fMsgs, fOutQ, fPushed, fCount>>
       ELSE /\ fOutQ' = Append(fOutQ, fMsgs[fI])
            /\ fPushed' = Append(fPushed, fMsgs[fI])
            /\ fMsgs' = [fMsgs EXCEPT ![fI] = init_message(fCtx, fI, fCount.made)]
            /\ fCount' = [fCount EXCEPT !.made = @ + 1]
  /\ fI' = fI + 1
  /\ UNCHANGED <<fCtx, fPc, fJust, fHad, fPopped>>
  /\ FFrame

\* Executor.h:174-187: one iteration of the loop of flush_messages
FlushStep ==
  /\ fPc = "flush" /\ fI < fCtx.coordinator_num
  /\ IF fI = fCtx.coordinator_id \/ fMsgs[fI].count = 0
       THEN UNCHANGED <<fMsgs, fOutQ, fPushed, fCount>>
       ELSE /\ fOutQ' = Append(fOutQ, fMsgs[fI])
            /\ fPushed' = Append(fPushed, fMsgs[fI])
            /\ fMsgs' = [fMsgs EXCEPT ![fI] = init_message(fCtx, fI, fCount.made)]
            /\ fCount' = [fCount EXCEPT !.made = @ + 1]
  /\ fI' = fI + 1
  /\ UNCHANGED <<fCtx, fPc, fJust, fHad, fPopped>>
  /\ FFrame

\* flush_messages returns
FlushReturn ==
  /\ fPc = "flush" /\ fI = fCtx.coordinator_num
  /\ fPc' = "idle" /\ fJust' = TRUE
  /\ UNCHANGED <<fCtx, fMsgs, fOutQ, fI, fCount, fHad, fPushed, fPopped>>
  /\ FFrame

\* Executor.h:113-122: pop_message, called by the thread that sends; the
\* result is <<the front message>>, or <<>> for nullptr
pop_message ==
  /\ fCount.pops < MaxPops
  /\ fCount' = [fCount EXCEPT !.pops = @ + 1]
  /\ IF fOutQ = <<>>
       THEN /\ fPopped' = Append(fPopped, [res |-> <<>>, empty |-> TRUE])
            /\ UNCHANGED fOutQ
       ELSE /\ fPopped' = Append(fPopped, [res |-> <<Head(fOutQ)>>, empty |-> FALSE])
            /\ fOutQ' = Tail(fOutQ)
  /\ UNCHANGED <<fCtx, fMsgs, fPc, fI, fJust, fHad, fPushed>>
  /\ FFrame

FNext ==
  \/ \E i \in 0..(MaxCoordinators - 1) : AddPiece(i)
  \/ FlushCall
  \/ FlushStep
  \/ FlushReturn
  \/ pop_message

(***************************************************************************)
(* Specification A: the read set of an AriaTransaction                     *)
(***************************************************************************)
AIdle ==
  /\ aId = 0 /\ aReadSet = <<>> /\ aExec = FALSE /\ aPc = "none" /\ aI = 0
  /\ aLast = "none" /\ aCalls = 0 /\ aLog = <<>>

AKeys == 0..1

\* AriaTransaction.h:24-29, 33-54: the constructor calls reset(); the read
\* set is empty and execution_phase is false
AInit ==
  /\ aId \in 1..2
  /\ aReadSet = <<>> /\ aExec = FALSE /\ aPc = "idle" /\ aI = 0 - 1
  /\ aLast = "none" /\ aCalls = 0 /\ aLog = <<>>

\* AriaTransaction.h:140-143
add_to_read_set(key) == Append(aReadSet, key)

\* the caller of a search_* function, outside process_requests
SearchCall(name) ==
  /\ aPc = "idle"
  /\ Len(aReadSet) < MaxReadSet
  /\ aLast' = name
  /\ UNCHANGED <<aId, aExec, aPc, aI, aCalls, aLog>>
  /\ AFrame

\* search_local_index without set_read_request_bit
search_local_index_no_request_bit(k) ==
  /\ SearchCall("search_local_index")
  /\ aReadSet' = IF aExec THEN aReadSet
                 ELSE add_to_read_set([key |-> k, local_index_read_bit |-> TRUE,
                                       read_request_bit |-> FALSE])

\* AriaTransaction.h:60-79
search_local_index(k) ==
  /\ SearchCall("search_local_index")
  /\ aReadSet' = IF aExec THEN aReadSet
                 ELSE add_to_read_set([key |-> k, local_index_read_bit |-> TRUE,
                                       read_request_bit |-> TRUE])

\* AriaTransaction.h:81-99
search_for_read(k) ==
  /\ SearchCall("search_for_read")
  /\ aReadSet' = IF aExec THEN aReadSet
                 ELSE add_to_read_set([key |-> k, local_index_read_bit |-> FALSE,
                                       read_request_bit |-> TRUE])

\* AriaTransaction.h:101-119
search_for_update(k) ==
  /\ SearchCall("search_for_update")
  /\ aReadSet' = IF aExec THEN aReadSet
                 ELSE add_to_read_set([key |-> k, local_index_read_bit |-> FALSE,
                                       read_request_bit |-> TRUE])

\* the executor re-executes a transaction with execution_phase set
SetExecutionPhase ==
  /\ aPc = "idle" /\ ~aExec
  /\ aExec' = TRUE
  /\ aLast' = "execution_phase"
  /\ UNCHANGED <<aId, aReadSet, aPc, aI, aCalls, aLog>>
  /\ AFrame

\* AriaTransaction.h:33-54: reset() (the log restarts with the new read set)
AReset ==
  /\ aPc = "idle" /\ aLast # "reset"
  /\ aReadSet' = <<>> /\ aExec' = FALSE /\ aLog' = <<>>
  /\ aLast' = "reset"
  /\ UNCHANGED <<aId, aPc, aI, aCalls>>
  /\ AFrame

\* AriaTransaction.h:160-162: process_requests is called; i starts at the
\* last entry
ProcessRequestsCall ==
  /\ aPc = "idle"
  /\ aCalls < MaxProcessCalls
  /\ aPc' = "loop"
  /\ aI' = Len(aReadSet) - 1
  /\ aCalls' = aCalls + 1
  /\ aLast' = "process_requests"
  /\ UNCHANGED <<aId, aReadSet, aExec, aLog>>
  /\ AFrame

\* AriaTransaction.h:162-171: one iteration that does not break
ProcessRequestsStep ==
  /\ aPc = "loop"
  /\ aI >= 0
  /\ aReadSet[aI + 1].read_request_bit
  /\ aLog' = Append(aLog, [key |-> aReadSet[aI + 1].key, id |-> aId,
                           key_offset |-> aI])
  /\ aReadSet' = [aReadSet EXCEPT ![aI + 1].read_request_bit = FALSE]
  /\ aI' = aI - 1
  /\ UNCHANGED <<aId, aExec, aPc, aLast, aCalls>>
  /\ AFrame

\* AriaTransaction.h:162-166, 172: the loop ends or breaks; return false
ProcessRequestsReturn ==
  /\ aPc = "loop"
  /\ IF aI < 0 THEN TRUE ELSE ~aReadSet[aI + 1].read_request_bit
  /\ aPc' = "idle"
  /\ UNCHANGED <<aId, aReadSet, aExec, aI, aLast, aCalls, aLog>>
  /\ AFrame

ANext ==
  \/ \E k \in AKeys : search_local_index(k)
  \/ \E k \in AKeys : search_for_read(k)
  \/ \E k \in AKeys : search_for_update(k)
  \/ SetExecutionPhase
  \/ AReset
  \/ ProcessRequestsCall
  \/ ProcessRequestsStep
  \/ ProcessRequestsReturn

OIdle == PIdle /\ FIdle /\ AIdle

(***************************************************************************)
(* Specifications                                                          *)
(***************************************************************************)
InitV == VInit /\ RIdle /\ EIdle /\ SIdle /\ OIdle
SpecV == InitV /\ [][VNext]_vars

InitR == RInit /\ VIdle /\ EIdle /\ SIdle /\ OIdle
SpecR == InitR /\ [][RNext]_vars

InitRShutdown == RInit /\ VIdle /\ EIdle /\ SIdle /\ OIdle
SpecRShutdown == InitRShutdown /\ [][RShutdownNext]_vars /\ RFair

InitE == EInit /\ VIdle /\ RIdle /\ SIdle /\ OIdle
SpecE == InitE /\ [][ENext]_vars

InitS == SInit /\ VIdle /\ RIdle /\ EIdle /\ OIdle
SpecS == InitS /\ [][SNext]_vars

InitSFair == SInit /\ VIdle /\ RIdle /\ EIdle /\ OIdle
SpecSFair == InitSFair /\ [][SNext]_vars /\ SFair

InitL == LInit /\ VIdle /\ RIdle /\ EIdle /\ OIdle
SpecL == InitL /\ [][LNext]_vars

InitP == PInit /\ VIdle /\ RIdle /\ EIdle /\ SIdle /\ FIdle /\ AIdle
SpecP == InitP /\ [][PNext]_vars

InitF == FInit /\ VIdle /\ RIdle /\ EIdle /\ SIdle /\ PIdle /\ AIdle
SpecF == InitF /\ [][FNext]_vars

InitA == AInit /\ VIdle /\ RIdle /\ EIdle /\ SIdle /\ PIdle /\ FIdle
SpecA == InitA /\ [][ANext]_vars

(***************************************************************************)
(* Claims on validate_read_key (checked under SpecV)                        *)
(***************************************************************************)

\* C6: whenever validate_read_key returns true, wts(latest) = wts(read_tid)
\* and commit_ts <= rts(latest) for the word it left in the record (after
\* its own extension, if any), for every commit_ts, saturating ones too.
C6_ValidationSound ==
  (vPc = "done" /\ vRet) =>
    /\ get_wts(vInst) = get_wts(vRead)
    /\ vCts <= get_rts(vInst)

\* C7: validate_read_key returns true iff the record is not locked by
\* another transaction, wts(latest) = wts(tid_read) and commit_ts <=
\* rts(latest) (after extension); it never returns true on a locked word.
\* Stated where commit_ts - wts fits the delta field.
C7_ValidateIff ==
  (vPc = "done" /\ vCts - get_wts(vRead) <= MaxDelta) =>
    /\ vRet => /\ ~is_locked(vInst)
               /\ get_wts(vInst) = get_wts(vRead)
               /\ vCts <= get_rts(vInst)
    /\ ~vRet => \/ is_locked(vOld)
                \/ get_wts(vOld) # get_wts(vRead)

\* validate_read_key has returned, and its last pass loaded an unlocked
\* word with the wts captured at read time and an rts below commit_ts
C20_Case ==
  /\ vPc = "done"
  /\ ~is_locked(vOld)
  /\ get_wts(vOld) = get_wts(vRead)
  /\ vCts > get_rts(vOld)

ToStop(n) == rStatus'[n] = "STOP" /\ rStatus[n] \in {"C_PHASE", "S_PHASE"}
PhaseOf(n) == IF rStatus[n] = "C_PHASE" THEN "C" ELSE "S"

\* C9 (as stated): on every node, whenever worker_status goes to STOP from
\* C_PHASE or S_PHASE, n_complete_workers = n_workers at that moment.
C9_StopBarrier ==
  [][\A n \in RNodes : ToStop(n) => rComplete[n] = n_workers]_vars

\* C9 (amended): the barrier holds for S_PHASE -> STOP on every node and for
\* C_PHASE -> STOP on coordinator 0: n_complete_workers = n_workers and every
\* worker of the node has incremented it for the phase that ends.  On the
\* other nodes C_PHASE ends with no completion reported yet.
C9_StopBarrierAmended ==
  [][\A n \in RNodes : ToStop(n) =>
       IF n = 0 \/ rStatus[n] = "S_PHASE"
         THEN /\ rComplete[n] = n_workers
              /\ \A w \in RWorkers :
                   rIn[n][w] = PhaseOf(n) /\ rCompSince[n][w] >= 1
         ELSE /\ rComplete[n] = 0
              /\ \A w \in RWorkers : rPc[n][w] = "cWaitStop"]_vars

\* C9 witness: every node has gone to STOP from C_PHASE and from S_PHASE.
C9_Witness == \A n \in RNodes : mPos[n] = 4 /\ rStatus[n] = "STOP"

\* C10 (as stated): between entering a phase and entering the next one a
\* worker increments n_complete_workers exactly once, in both phases.
C10_OncePerPhase ==
  \A n \in RNodes, w \in RWorkers :
    /\ rCompSince[n][w] <= 1
    /\ rPc[n][w] = "waitS" => rCompSince[n][w] = 1
    /\ (rPc[n][w] \in {"waitC", "cStart", "exited"} /\ rIn[n][w] = "S")
         => rCompSince[n][w] = 1

\* C10 (amended): a worker reports exactly one completion for a C-phase and
\* exactly two for an S-phase (one when run_transaction returns, one after
\* the STOP that ends the phase).
C10_CompletionsPerPhase ==
  \A n \in RNodes, w \in RWorkers :
    /\ rIn[n][w] = "C" => rCompSince[n][w] <= 1
    /\ rIn[n][w] = "S" => rCompSince[n][w] <= 2
    /\ rPc[n][w] = "waitS" => (rIn[n][w] = "C" /\ rCompSince[n][w] = 1)
    /\ (rPc[n][w] \in {"waitC", "cStart", "exited"} /\ rIn[n][w] = "S")
         => rCompSince[n][w] = 2

\* C10 witness: a worker is back at the top of the loop after an S-phase.
C10_Witness ==
  \E n \in RNodes, w \in RWorkers :
    rPc[n][w] = "waitC" /\ rIn[n][w] = "S" /\ rCompSince[n][w] = 2

(***************************************************************************)
(* Claims on the worker loop (checked under SpecE)                          *)
(***************************************************************************)

\* C8: retry determinism.  When a commit aborted and the transaction is
\* replayed (reset, execute with the saved seed restored) against a database
\* that has not changed since the aborted attempt, the replay's read set is
\* the aborted attempt's read set: same keys, same order, same tids.
C8_RetryDeterminism ==
  (eLast.valid /\ eLast.replay /\ ePrev.valid /\ eLast.db = ePrev.db)
    => eLast.rs = ePrev.rs

RandPeriod == 16    \* Rand_next runs through all 16 states before it repeats

\* the state of random after n more draws
RECURSIVE RandAfter(_, _)
RandAfter(seed, n) == IF n = 0 THEN seed ELSE RandAfter(Rand_next(seed), n - 1)

\* state t lies ahead of state s in the stream (by less than one period)
AdvancedPast(s, t) == \E n \in 1..(RandPeriod - 1) : RandAfter(s, n) = t

\* C29: every newly generated transaction is drawn from a state of random
\* that has advanced past the state from which the previously generated
\* transaction was drawn (so the same transaction is not generated again),
\* whether the previous one committed at once or after retries.
C29_RandomProgress ==
  \A n \in 1..(Len(eGen) - 1) : AdvancedPast(eGen[n], eGen[n + 1])

(***************************************************************************)
(* Claims on specification S                                               *)
(***************************************************************************)
Master(k) == db[master_coordinator(k)][k]

\* C1: at most one transaction at a time holds the LOCK bit of a master
\* record (the bit is set exactly while one transaction holds it), and a
\* lock attempt, local or by a LOCK request, on a word whose LOCK bit is
\* set fails and leaves the word unchanged.
C1_LockExclusive ==
  /\ \A k \in Keys :
       /\ Cardinality(owner[k]) <= 1
       /\ is_locked(Master(k).tid) <=> owner[k] # {}
  /\ (lastLock.valid /\ is_locked(lastLock.pre)) =>
        (~lastLock.success /\ lastLock.post = lastLock.pre)

C1_Witness ==
  /\ lastLock.valid /\ is_locked(lastLock.pre) /\ ~lastLock.success
  /\ \E k \in Keys : owner[k] # {} /\ is_locked(Master(k).tid)

InCommit == {"validate", "validateWait", "write", "writeWait", "release"}

C2_State ==
  /\ \A k \in Keys :
       /\ \A i, j \in 1..Len(installed[k]) :
            i < j => installed[k][i].wts < installed[k][j].wts
       /\ get_wts(Master(k).tid) =
            IF installed[k] = <<>> THEN 0
            ELSE installed[k][Len(installed[k])].wts
  /\ \A w \in Workers : wk[w].pc \in InCommit =>
       \A j \in 1..Len(wk[w].ws) :
         /\ wk[w].commit_wts > get_wts(wk[w].ws[j].tid)
         /\ wk[w].commit_wts > get_rts(wk[w].ws[j].tid)

C2_Step ==
  \A c \in Coords : \A k \in Keys :
    get_wts(db'[c][k].tid) >= get_wts(db[c][k].tid)

\* C2: for every record the wts values installed by successful commits are
\* strictly increasing, a commit_wts is strictly greater than the wts and
\* the rts the record carried when the transaction locked it, and the wts
\* of a copy of a record never decreases.
C2_WtsIncreasing == []C2_State /\ [][C2_Step]_vars

C2_Witness ==
  \E k \in Keys : Len(installed[k]) >= 2

Perms(n) ==
  {f \in [1..n -> 1..n] : \A i, j \in 1..n : f[i] = f[j] => i = j}

\* the committed transactions run one after the other in the given order:
\* does each read the value the serial execution gives it, and what is left
RECURSIVE SerialRun(_, _, _)
SerialRun(order, i, st) ==
  IF i > Len(hist) THEN [ok |-> TRUE, st |-> st]
  ELSE LET h == hist[order[i]] IN
       IF \A j \in 1..Len(h.reads) : st[h.reads[j].key] = h.reads[j].val
         THEN SerialRun(order, i + 1,
                        [k \in Keys |-> IF k \in h.writes THEN h.id ELSE st[k]])
         ELSE [ok |-> FALSE, st |-> st]

Quiescent ==
  \A w \in Workers : wk[w].pc = "top" /\ inq[w] = <<>> /\ out[w] = <<>>

\* C3: the committed transactions are serializable: once the run is over
\* (every commit() has returned and nothing is in flight) there is a serial
\* order of exactly the committed transactions in which every one reads the
\* values it read and which leaves the master records with their values.
C3_Serializable ==
  Quiescent =>
    \E order \in Perms(Len(hist)) :
      LET r == SerialRun(order, 1, [k \in Keys |-> InitVal]) IN
        /\ r.ok
        /\ \A k \in Keys : Master(k).val = r.st[k]

AppliedIds == {a[1] : a \in applied} \cup
              UNION {{installed[k][j].id : j \in 1..Len(installed[k])} : k \in Keys}

AbortInFlight(id) ==
  \E w \in Workers :
    \/ \E j \in 1..Len(out[w]) : out[w][j].type = "ABORT" /\ out[w][j].val = id
    \/ \E m \in 1..Len(inq[w]) : \E j \in 1..Len(inq[w][m].pieces) :
         inq[w][m].pieces[j].type = "ABORT" /\ inq[w][m].pieces[j].val = id

\* C5: after commit() returns false every locally mastered record the
\* transaction had locked has been unlocked with the wts and rts it had
\* before the lock, an ABORT piece has been sent for every remote write key
\* whose lock was granted, once those pieces are handled no record is
\* locked by the transaction, and it unlocks no record it never locked.
C5_AbortReleasesLocks ==
  \A w \in Workers : wk[w].ret = "false" =>
    LET t == wk[w]
        c == coordinator_id(w)
    IN /\ \A j \in 1..Len(t.ws) : t.ws[j].lockbit =>
            IF has_master_partition(c, t.ws[j].key)
              THEN \E u \in abortLog[w].unlocked :
                     /\ u.key = t.ws[j].key
                     /\ ~is_locked(u.after)
                     /\ get_wts(u.after) = get_wts(u.before)
                     /\ get_rts(u.after) = get_rts(u.before)
              ELSE \E m \in abortLog[w].sent : m.key = t.ws[j].key
       /\ \A u \in abortLog[w].unlocked : u.held
       /\ \A m \in abortLog[w].sent : m.held
       /\ ~AbortInFlight(t.id) => \A k \in Keys : t.id \notin owner[k]

C5_Witness ==
  \E w \in Workers :
    /\ wk[w].ret = "false"
    /\ abortLog[w].unlocked # {} /\ abortLog[w].sent # {}
    /\ ~AbortInFlight(wk[w].id)

(***************************************************************************)
(* Claims on specification R, continued                                    *)
(***************************************************************************)
\* the worker is about to run the first transaction of run_transaction
AtRunStart(n, w) ==
  \/ rPc[n][w] = "cStart"
  \/ rPc[n][w] \in {"cRun", "sRun"} /\ rI[n][w] = 0

\* C11: the queue q of a worker is empty whenever the worker begins
\* run_transaction for a phase (the C-phase transactions are drained before
\* its first S-phase transaction, the S-phase ones before the next C-phase
\* work), and it is empty when the worker has returned on EXIT.
C11_QueueDrained ==
  \A n \in RNodes : \A w \in RWorkers :
    (AtRunStart(n, w) \/ rPc[n][w] = "exited") => rQ[n][w] = 0

\* a worker begins its S-phase with an empty q while its neighbour still
\* holds the transaction it committed in the C-phase
C11_Witness ==
  \E w, u \in RWorkers :
    /\ rPc[0][w] = "sRun" /\ rI[0][w] = 0 /\ rQ[0][w] = 0
    /\ rPc[0][u] = "waitS" /\ rQ[0][u] > 0

(***************************************************************************)
(* Claims on specification E, continued                                    *)
(***************************************************************************)
\* the step in which execute() returns a result other than READY_TO_COMMIT
FatalAbortStep == ePc = "execute" /\ ePc' = "top"

\* the first step of the attempt that follows such a result
AfterFatalAbort ==
  ePc = "top" /\ ePc' = "execute" /\ eLast.valid /\ ~eLast.ready

\* C12: a fatal abort drops the transaction: a result of execute() other
\* than READY_TO_COMMIT is counted in n_abort_no_retry and the next attempt
\* runs a transaction freshly generated by next_transaction(), also when
\* the failing execution was a retry.
C12_FatalAbortDrops ==
  [][ /\ FatalAbortStep =>
           eCount'.abort_no_retry = eCount.abort_no_retry + 1
      /\ AfterFatalAbort => Len(eGen') = Len(eGen) + 1 ]_vars

(***************************************************************************)
(* Claims on the R-Store loop under shutdown                               *)
(***************************************************************************)
\* C13: once worker_status is EXIT (it stays EXIT), every worker eventually
\* returns from start(), whichever point of the loop it is at.
C13_ExitTerminates ==
  \A n \in RNodes : \A w \in RWorkers :
    (rStatus[n] = "EXIT") ~> (rPc[n][w] = "exited")

\* C13, amended: once worker_status is EXIT, every worker that is waiting
\* for C_PHASE eventually returns from start().
C13_ExitFromWaitC ==
  \A n \in RNodes : \A w \in RWorkers :
    (rStatus[n] = "EXIT" /\ rPc[n][w] = "waitC") ~> (rPc[n][w] = "exited")

\* a worker has returned on EXIT while a worker of the same node is left
\* waiting for S_PHASE
C13_Witness ==
  \E n \in RNodes : \E w, u \in RWorkers :
    /\ rStatus[n] = "EXIT"
    /\ rPc[n][w] = "exited"
    /\ rPc[n][u] = "waitS"

(***************************************************************************)
(* Claims on specification S, continued                                    *)
(***************************************************************************)
\* a piece of the given type, sent by worker w or in answer to it, is
\* batched or queued somewhere and not handled yet
InFlight(type, w) ==
  \E u \in Workers :
    \/ \E j \in 1..Len(out[u]) : out[u][j].type = type /\ out[u][j].from = w
    \/ \E m \in 1..Len(inq[u]) : \E j \in 1..Len(inq[u][m].pieces) :
         inq[u][m].pieces[j].type = type /\ inq[u][m].pieces[j].from = w

\* the worker has moved on in commit(): to the next key or the next phase
Stepped(w) == wk'[w].i # wk[w].i \/ wk'[w].pc # wk[w].pc

\* the step of write_and_replicate that sends a REPLICATE piece
SendsReplicate(w) ==
  /\ wk[w].pc = "write" /\ Stepped(w)
  /\ has_master_partition(coordinator_id(w), wk[w].ws[wk[w].i].key)

\* the step of release_lock for one write key
ReleasesKey(w) == wk[w].pc = "release" /\ Stepped(w)

C14_Waited ==
  \A w \in Workers :
    (wk[w].pc = "release" \/ wk[w].ret = "true") =>
      /\ ~InFlight("REPLICATE", w)
      /\ ~InFlight("REPLICATE_RSP", w)

C14_Counted ==
  \A w \in Workers :
    /\ SendsReplicate(w) =>
         wk'[w].pendingResponses = wk[w].pendingResponses + 1
    /\ ReleasesKey(w) =>
         wk'[w].pendingResponses = wk[w].pendingResponses

PieceOf(type, id) ==
  \E u \in Workers :
    \/ \E j \in 1..Len(out[u]) : out[u][j].type = type /\ out[u][j].val = id
    \/ \E m \in 1..Len(inq[u]) : \E j \in 1..Len(inq[u][m].pieces) :
         inq[u][m].pieces[j].type = type /\ inq[u][m].pieces[j].val = id

\* the current write key of worker w is mastered on the other coordinator
RemoteKey(w) ==
  ~has_master_partition(coordinator_id(w), wk[w].ws[wk[w].i].key)

\* the step of write_and_replicate that sends a WRITE piece
SendsWrite(w) == wk[w].pc = "write" /\ Stepped(w) /\ RemoteKey(w)

\* the step of release_lock that sends a RELEASE_LOCK piece
SendsRelease(w) == wk[w].pc = "release" /\ Stepped(w) /\ RemoteKey(w)

\* every read of t that needs a validation has its success bit
Validated(t) ==
  \A j \in 1..Len(t.rs) : IndexOf(t.ws, t.rs[j].key) = 0 => t.rs[j].ok

C15_Step ==
  \A w \in Workers :
    LET t == wk[w] IN
    /\ SendsWrite(w) =>
         /\ t.ws[t.i].lockbit /\ ~t.abort_lock
         /\ ~InFlight("LOCK", w) /\ ~InFlight("LOCK_RSP", w)
         /\ Validated(t) /\ ~t.abort_read_validation
    /\ SendsRelease(w) =>
         /\ <<t.id, master_coordinator(t.ws[t.i].key), t.ws[t.i].key>> \in applied
         /\ ~PieceOf("WRITE", t.id)

C15_State ==
  \A w \in Workers :
    (wk[w].pc = "abort" \/ wk[w].ret = "false") =>
      /\ ~PieceOf("WRITE", wk[w].id)
      /\ ~PieceOf("RELEASE_LOCK", wk[w].id)
      /\ wk[w].id \notin AppliedIds

\* C15: for a write key mastered on a remote coordinator the pieces go out
\* in the order LOCK, WRITE, RELEASE_LOCK: WRITE only after the lock
\* response was received with the lock granted and every read validation
\* succeeded, RELEASE_LOCK only after WRITE (which the master has applied
\* by then); a transaction whose lock or validation failed sends neither.
C15_RemotePieceOrder == []C15_State /\ [][C15_Step]_vars

\* a committed transaction with a remote write key next to an aborted one
\* that had asked for a remote lock
C15_Witness ==
  /\ \E w \in Workers :
       /\ wk[w].ret = "true"
       /\ \E j \in 1..Len(wk[w].ws) :
            ~has_master_partition(coordinator_id(w), wk[w].ws[j].key)
  /\ \E w \in Workers :
       /\ wk[w].ret = "false"
       /\ \E j \in 1..Len(wk[w].ws) :
            ~has_master_partition(coordinator_id(w), wk[w].ws[j].key)

Requests == {"SEARCH", "LOCK", "VALID", "WRITE", "REPLICATE"}
Responses == {"SEARCH_RSP", "LOCK_RSP", "VALID_RSP", "WRITE_RSP", "REPLICATE_RSP"}

\* the pieces of a batch, or of the messages of a queue, that are requests
\* of worker w still to be handled or responses to w still to be handled
Awaited(pieces, w) ==
  Cardinality({j \in 1..Len(pieces) :
                 /\ pieces[j].from = w
                 /\ pieces[j].type \in Requests \cup Responses})

RECURSIVE AwaitedIn(_, _)
AwaitedIn(q, w) ==
  IF q = <<>> THEN 0 ELSE Awaited(Head(q).pieces, w) + AwaitedIn(Tail(q), w)

RECURSIVE SumOver(_, _)
SumOver(S, w) ==
  IF S = {} THEN 0
  ELSE LET u == CHOOSE x \in S : TRUE
       IN Awaited(out[u], w) + AwaitedIn(inq[u], w) + SumOver(S \ {u}, w)

\* the requests of worker w whose response has not been handled yet
Outstanding(w) == SumOver(Workers, w)

Replica(k) == db[1 - master_coordinator(k)][k]

\* C17: a replica is written under the record's lock (no copy on a replica
\* is ever left locked) and stamped with the writer's commit_wts, and once
\* every message has been handled and no transaction is in flight the
\* replica of every record holds the value and the wts of the master copy.
C17_ReplicaConvergence ==
  /\ \A k \in Keys : ~is_locked(Replica(k).tid)
  /\ Quiescent =>
       \A k \in Keys :
         /\ Replica(k).val = Master(k).val
         /\ get_wts(Replica(k).tid) = get_wts(Master(k).tid)

\* nothing is in flight after two commits on the same record, the second
\* of them by a writer on the replica's coordinator
C17_Witness ==
  /\ Quiescent
  /\ \E k \in Keys :
       /\ Len(installed[k]) = 2
       /\ Replica(k).val = installed[k][2].id
       /\ coordinator_id((installed[k][2].id \div 10) - 1) # master_coordinator(k)

(***************************************************************************)
(* Claims on the commit with every record on one coordinator (SpecL)        *)
(***************************************************************************)
\* the only transaction so far read records 0 and 1, wrote record 1, and
\* its commit() has returned
C18_Case(w) ==
  /\ nAtt = 1
  /\ wk[w].pc = "top" /\ wk[w].ret # "none"
  /\ wk[w].shape = [reads |-> <<0, 1>>, writes |-> <<1>>]

\* C18 as stated: an uncontended transaction that reads record 0 and writes
\* record 1, both at wts 0, commits, leaves record 1 with wts >= 1 and
\* leaves the whole TID word of record 0 (lock bit, wts and rts) unchanged
C18_UncontendedCommit ==
  \A w \in Workers :
    C18_Case(w) =>
      /\ wk[w].ret = "true"
      /\ get_wts(Master(1).tid) >= 1
      /\ Master(0).tid = NoTid

\* C18 amended: the transaction commits, record 1 has wts >= 1, and record
\* 0 keeps its lock bit and its wts while its rts is raised to commit_wts
C18_UncontendedCommitExtends ==
  \A w \in Workers :
    C18_Case(w) =>
      /\ wk[w].ret = "true"
      /\ get_wts(Master(1).tid) >= 1
      /\ ~is_locked(Master(0).tid)
      /\ get_wts(Master(0).tid) = 0
      /\ get_rts(Master(0).tid) = wk[w].commit_wts
      /\ wk[w].commit_wts >= 1

C18_Witness == \E w \in Workers : C18_Case(w) /\ wk[w].ret = "true"

\* commit() of the worker's transaction has returned
C19_Returned(w) == wk[w].pc = "top" /\ wk[w].ret # "none"

\* the records the transaction read and did not write carry the wts the
\* transaction captured
C19_ReadCurrent(w) ==
  \A j \in 1..Len(wk[w].rs) :
    (\A i \in 1..Len(wk[w].ws) : wk[w].ws[i].key # wk[w].rs[j].key)
      => get_wts(wk[w].rs[j].tid) = get_wts(Master(wk[w].rs[j].key).tid)

\* C19 as stated: a transaction that read record k, has k only in its read
\* set and enters commit() after another transaction committed an update of
\* k, gets false from commit() with abort_read_validation set and
\* abort_lock clear; its retry, if no other transaction runs meanwhile,
\* reads k at the new wts and commits
C19_ReadValidationAbort ==
  \A w \in Workers :
    C19_Returned(w) =>
      /\ wk[w].stale =>
            /\ wk[w].ret = "false"
            /\ wk[w].abort_read_validation
            /\ ~wk[w].abort_lock
      /\ (wk[w].prev = "validation" /\ wk[w].solo) =>
            /\ wk[w].ret = "true"
            /\ C19_ReadCurrent(w)

\* C19 amended: such a transaction gets false from commit(), with
\* abort_read_validation set and abort_lock clear when its lock phase
\* succeeds, and with abort_lock set alone when it does not (a record of
\* its write set was updated too, or is locked); the retry is as stated
C19_StaleReadAborts ==
  \A w \in Workers :
    C19_Returned(w) =>
      /\ wk[w].stale =>
            /\ wk[w].ret = "false"
            /\ wk[w].abort_read_validation = ~wk[w].abort_lock
      /\ (wk[w].prev = "validation" /\ wk[w].solo) =>
            /\ wk[w].ret = "true"
            /\ C19_ReadCurrent(w)

\* a transaction aborted by read validation was retried alone and committed
C19_Witness ==
  \E w \in Workers :
    /\ C19_Returned(w) /\ wk[w].prev = "validation" /\ wk[w].solo
    /\ wk[w].ret = "true"
    /\ \E j \in 1..Len(wk[w].rs) : get_wts(wk[w].rs[j].tid) > 0

(***************************************************************************)
(* Claims on the partition choice (checked under SpecP)                     *)
(***************************************************************************)
\* both workers have generated a transaction
BothPicked(x, y) == x # y /\ pPick[x] # NoPick /\ pPick[y] # NoPick

\* C21 as stated: in every configuration and in each of the three loops,
\* two distinct workers never generate a transaction for the same partition
C21_DisjointPartitions ==
  \A x, y \in DOMAIN pPick : BothPicked(x, y) => pPick[x] # pPick[y]

\* C21 amended: that holds in both R-Store phases; in the Executor main
\* loop it holds for workers of different coordinators only
C21_DisjointAcrossNodes ==
  \A x, y \in DOMAIN pPick :
    (BothPicked(x, y) /\ (pMode = "Executor" => x[1] # y[1]))
      => pPick[x] # pPick[y]

\* two workers of one coordinator and one of another have all generated
C21_Witness ==
  /\ pMode = "S_PHASE"
  /\ \E x, y, z \in DOMAIN pPick :
       /\ BothPicked(x, y) /\ BothPicked(x, z)
       /\ x[1] = y[1] /\ x[1] # z[1]

(***************************************************************************)
(* Claims on the lock step and the abort path (checked under SpecS)         *)
(***************************************************************************)
\* write key j of worker w is mastered locally, was locked by this commit(),
\* and the word lock() returned has another wts than the tid read
LockedChanged(w, j) ==
  LET t == wk[w]
      k == t.ws[j].key
  IN /\ has_master_partition(coordinator_id(w), k)
     /\ t.ws[j].lockbit
     /\ get_wts(t.ws[j].tid) # get_wts(t.rs[IndexOf(t.rs, k)].tid)

\* C22: when a locally mastered write-set record was modified between the
\* read and the lock, abort_lock is set, commit() goes to the abort path
\* and returns false, the transaction writes no value, and the abort path
\* unlocks that record and every record locked before it (an ABORT piece
\* is sent for a remote one)
C22_LockStepAbort ==
  \A w \in Workers : \A j \in 1..Len(wk[w].ws) :
    LockedChanged(w, j) =>
      LET t == wk[w]
          c == coordinator_id(w)
      IN /\ t.abort_lock
         /\ t.pc \in {"lock", "lockWait", "abort", "top"}
         /\ t.ret # "true"
         /\ \A x \in applied : x[1] # t.id
         /\ t.pc = "top" =>
              /\ t.ret = "false"
              /\ \A i \in 1..j : t.ws[i].lockbit =>
                   IF has_master_partition(c, t.ws[i].key)
                     THEN /\ t.id \notin owner[t.ws[i].key]
                          /\ \E u \in abortLog[w].unlocked :
                               u.key = t.ws[i].key /\ ~is_locked(u.after)
                     ELSE /\ \E m \in abortLog[w].sent : m.key = t.ws[i].key
                          /\ ~AbortInFlight(t.id) =>
                               t.id \notin owner[t.ws[i].key]

\* commit() returned false after such a lock step, with a remote record
\* locked before it
C22_Witness ==
  \E w \in Workers : \E j \in 1..Len(wk[w].ws) :
    /\ LockedChanged(w, j)
    /\ wk[w].pc = "top" /\ wk[w].ret = "false"
    /\ abortLog[w].sent # {}

(***************************************************************************)
(* Claims on the read validation (checked under SpecS)                      *)
(***************************************************************************)
\* worker w takes the step of validate_read_set for a locally mastered read
\* key that is not in its write set
ValidatesLocal(w) ==
  /\ wk[w].pc = "validate" /\ Stepped(w)
  /\ IndexOf(wk[w].ws, wk[w].rs[wk[w].i].key) = 0
  /\ has_master_partition(coordinator_id(w), wk[w].rs[wk[w].i].key)

\* that step raised the rts of the record
ExtendsRts(w) ==
  LET k == wk[w].rs[wk[w].i].key
      c == coordinator_id(w)
  IN get_rts(db'[c][k].tid) > get_rts(db[c][k].tid)

\* C23 as stated: after the validation of a read-set entry the entry has
\* its wts_change_in_read_validation bit set if the validation extended the
\* record's rts, and clear if it extended nothing
C23_BitOnExtension ==
  [][\A w \in Workers :
       ValidatesLocal(w) =>
         (wk'[w].rs[wk[w].i].wchg <=> ExtendsRts(w))]_vars

C23_BitState ==
  \A w \in Workers : \A j \in 1..Len(wk[w].rs) : ~wk[w].rs[j].wchg

C23_BitStep ==
  \A w \in Workers :
    ValidatesLocal(w) =>
      LET i == wk[w].i IN
      /\ wk'[w].rs[i].wchg <=>
           get_wts(wk'[w].rs[i].tid) # get_wts(wk[w].rs[i].tid)
      /\ ExtendsRts(w) =>
           /\ wk'[w].rs[i].ok
           /\ ~wk'[w].rs[i].wchg
           /\ wk'[w].rs[i].tid = wk[w].rs[i].tid

\* C23 amended: the bit is set exactly when the validation returned a word
\* whose wts differs from the wts read; a validation that extended the rts
\* sets read_validation_success and leaves the bit clear and the captured
\* tid as it was, so no entry ever has the bit set
C23_BitOnWtsChange == []C23_BitState /\ [][C23_BitStep]_vars

\* an entry validated by an extension: the record's rts is above the rts
\* the entry captured
C23_Witness ==
  \E w \in Workers : \E j \in 1..Len(wk[w].rs) :
    /\ wk[w].pc \in {"validate", "validateWait"}
    /\ has_master_partition(coordinator_id(w), wk[w].rs[j].key)
    /\ wk[w].rs[j].ok /\ ~wk[w].rs[j].wchg
    /\ get_rts(Master(wk[w].rs[j].key).tid) > get_rts(wk[w].rs[j].tid)

(***************************************************************************)
(* Claims on flush_messages and pop_message (checked under SpecF)           *)
(***************************************************************************)
\* how often the message object obj was pushed
Pushes(obj) == Cardinality({j \in 1..Len(fPushed) : fPushed[j].obj = obj})

\* the messages pop_message returned, in order
RECURSIVE PoppedMessages(_)
PoppedMessages(s) ==
  IF s = <<>> THEN <<>>
  ELSE Head(s).res \o PoppedMessages(Tail(s))

\* C24: after flush_messages every slot but the worker's own holds a
\* message without pieces with header (coordinator_id, slot, id); every
\* message that had a piece has been pushed exactly once and none without
\* pieces is ever pushed; pop_message returns the pushed messages in FIFO
\* order and nullptr exactly when out_queue is empty
C24_FlushMessages ==
  /\ fJust =>
       /\ \A i \in DOMAIN fMsgs : i # fCtx.coordinator_id =>
            /\ fMsgs[i].count = 0
            /\ fMsgs[i].source = fCtx.coordinator_id
            /\ fMsgs[i].dest = i
            /\ fMsgs[i].worker = fCtx.id
       /\ \A obj \in fHad : Pushes(obj) = 1
  /\ \A obj \in 0..fCount.made : Pushes(obj) <= 1
  /\ \A j \in 1..Len(fPushed) : fPushed[j].count > 0
  /\ \A j \in 1..Len(fPopped) :
       (fPopped[j].res = <<>>) <=> fPopped[j].empty
  /\ PoppedMessages(fPopped) \o fOutQ = fPushed

\* two flushes pushed a message each for the same slot, one was popped, and
\* a pop found the queue empty before
C24_Witness ==
  /\ fJust
  /\ \E i, j \in 1..Len(fPushed) : i < j /\ fPushed[i].dest = fPushed[j].dest
  /\ \E j \in 1..Len(fPopped) : fPopped[j].empty
  /\ PoppedMessages(fPopped) # <<>>

(***************************************************************************)
(* Claims on progress (checked under SpecSFair)                             *)
(***************************************************************************)
\* worker w waits in sync_messages for a response
Pumping(w) ==
  wk[w].pc \in {"execWait", "lockWait", "validateWait", "writeWait"}
    /\ wk[w].pendingResponses > 0

CounterSum ==
  eCount.commit + eCount.abort_lock + eCount.abort_read_validation
    + eCount.abort_no_retry

\* commit() has just returned false: the loop is back at the top and the
\* last execute() is the one whose commit aborted
CommitReturnedFalse == ePc = "top" /\ ePrev.valid /\ ePrev = eLast

\* C26: every execution attempt increments exactly one of n_commit,
\* n_abort_lock, n_abort_read_validation and n_abort_no_retry, so that
\* their sum is the number of execute() calls completed (less the one whose
\* commit() is still running); and when commit() has returned false the
\* transaction has abort_lock or abort_read_validation set
C26_Counters ==
  /\ ePc \in {"top", "execute", "stopped"} => CounterSum = eExecs
  /\ ePc = "commit" => CounterSum = eExecs - 1
  /\ CommitReturnedFalse =>
       (eTxn.abort_lock \/ eTxn.abort_read_validation)

\* a commit, an abort without retry and then a commit() that returned false
\* have been counted
C26_Witness ==
  /\ CommitReturnedFalse
  /\ eCount.commit > 0 /\ eCount.abort_no_retry > 0
  /\ eCount.abort_lock + eCount.abort_read_validation > 0

(***************************************************************************)
(* Claims on the Aria read set (checked under SpecA)                       *)
(***************************************************************************)
\* the offsets of the entries whose read_request bit is set
PendingReads ==
  {i \in 0..(Len(aReadSet) - 1) : aReadSet[i + 1].read_request_bit}

\* how often entry i was passed to aria_read_handler
Passed(i) == Cardinality({n \in DOMAIN aLog : aLog[n].key_offset = i})

\* C27: between calls, the read-set entries whose read_request bit is set
\* form a suffix of readSet; an entry whose bit was cleared was passed to
\* aria_read_handler exactly once (a pending one not yet), with its own index
\* as key offset and the transaction's id; when process_requests has
\* returned, no entry has the bit set.  Inside process_requests the pending
\* entries are the block that ends at the loop index.
C27_PendingReads ==
  /\ aPc = "idle" =>
       \A i \in PendingReads : \A j \in i..(Len(aReadSet) - 1) :
          j \in PendingReads
  /\ aPc = "loop" =>
       \A i \in PendingReads : i <= aI /\ \A j \in i..aI : j \in PendingReads
  /\ \A i \in 0..(Len(aReadSet) - 1) :
       Passed(i) = IF i \in PendingReads THEN 0 ELSE 1
  /\ \A n \in DOMAIN aLog :
       /\ aLog[n].key_offset \in 0..(Len(aReadSet) - 1)
       /\ aLog[n].key = aReadSet[aLog[n].key_offset + 1].key
       /\ aLog[n].id = aId
  /\ (aPc = "idle" /\ aLast = "process_requests") => PendingReads = {}

\* two calls of process_requests with a search in between: the first handled
\* entries 1 and 0, the second entry 2, one of them a local index read
C27_Witness ==
  /\ aPc = "idle" /\ aLast = "process_requests" /\ aCalls = 2
  /\ Len(aReadSet) = 3 /\ Len(aLog) = 3
  /\ aLog[1].key_offset = 1 /\ aLog[2].key_offset = 0 /\ aLog[3].key_offset = 2
  /\ \E i \in 1..3 : aReadSet[i].local_index_read_bit

(***************************************************************************)
(* Claims on process_request and the worker's transaction (SpecS)          *)
(***************************************************************************)
\* Executor.h:66-73: the worker's transaction pointer is set by the first
\* next_transaction() and never cleared afterwards
TransactionSet(w) == wk[w].att > 0

\* C28: whenever process_request hands a piece to a handler, the worker's
\* transaction is set (the handler is passed *transaction)
C28_TransactionSet ==
  [][\A w \in Workers : Handle(w) => TransactionSet(w)]_vars

(***************************************************************************)
(* Claims on the local replicate of write_and_replicate (SpecS)            *)
(***************************************************************************)
\* Scar.h:290-299: worker w is about to write the replica of the key of its
\* current write-set entry that its own coordinator holds (the master is
\* on the peer)
LocalReplicate(w) ==
  /\ wk[w].pc = "write"
  /\ ~has_master_partition(coordinator_id(w), wk[w].ws[wk[w].i].key)

\* the wts of that replica, as ScarHelper::lock returns it
ReplicaWts(w) == get_wts(db[coordinator_id(w)][wk[w].ws[wk[w].i].key].tid)

\* C30: when a committing transaction writes a replica held on its own
\* coordinator, the replica's wts read under the lock is strictly less than
\* the transaction's commit_wts, in every state in which the step can be
\* taken (the assertion of Scar.h:296 never fails).
C30_LocalReplicateWts ==
  \A w \in Workers : LocalReplicate(w) => ReplicaWts(w) < wk[w].commit_wts

\* a transaction replicates locally over a replica that an earlier commit,
\* its own coordinator's or the peer's, has already written
C30_Witness ==
  \E w \in Workers :
    /\ LocalReplicate(w)
    /\ ReplicaWts(w) > 0
    /\ \E u \in Workers \ {w} : \E n \in DOMAIN hist :
         /\ hist[n].id \div 10 = u + 1
         /\ wk[w].ws[wk[w].i].key \in hist[n].writes

====
